---- MODULE Spec2Model ----
(***************************************************************************)
(* A model of the open-banking data service.                               *)
(*                                                                         *)
(* Two programs share the account/beneficiary/payment vocabulary:          *)
(*   - the Lambda tool set ("lambda working copy.py"), whose tools work on *)
(*     the relational store through the Database singleton; its            *)
(*     initiate_payment is a sequence of separate store calls, so          *)
(*     invocations running in different Lambda instances interleave at     *)
(*     the store calls (specification Spec).  Its writing tools send their *)
(*     statements through db.execute_transaction, a method the Database    *)
(*     class of database.py does not have: the call raises and nothing is  *)
(*     written;                                                            *)
(*   - the MCP server (main.py), whose beneficiaries and payments live in  *)
(*     two in-process dictionaries and whose accounts live in the store    *)
(*     (specification MainSpec, which also takes the Lambda tool           *)
(*     create_account); its tools run one at a time.  ToolsSpec is the     *)
(*     tools of both programs next to each other.  SearchSpec is the       *)
(*     payment tools followed by the query tools; StatsSpec is             *)
(*     get_payment_statistics on the stores the payment tools leave.       *)
(* SuppliedIdSpec is Spec with requests that can name their payment_id;     *)
(* BeneficiarySpec is initiate_payment together with create_beneficiary.   *)
(* SerialDbSpec is the Database singleton of database.py as the tools use  *)
(* it, one method call after the other; DbSpec is the singleton with calls *)
(* that overlap, which the class itself does nothing to prevent.           *)
(* GenericSpec is the generic table service (genericdbservice), one event  *)
(* at a time on one table.                                                 *)
(* Amounts and balances of the store are counted in whole currency units;  *)
(* where main.py adds amounts as floats (get_payment_statistics) the       *)
(* amount of a payment counts tenths of a unit.                            *)
(***************************************************************************)
EXTENDS Integers, Sequences, FiniteSets, TLC

\* ------------------------------------------------------------------ bounds
\* Number of initiate_payment invocations (Lambda world), each run once.
MaxProcs == 2
\* Largest amount a payment tool of main.py is called with.
MaxAmount == 2
\* Balance of every account the store holds at the start.
InitBalance == 2
\* Number of tool calls the MCP server handles (main.py world).
MaxCalls == 4
\* Number of calls of the Database singleton's methods (one process).
MaxDbCalls == 3
\* Number of callers of the Database singleton of a process.
MaxCallers == 2
\* Number of tool calls after which the searched store stops changing.
MaxStoredCalls == 3

Procs == 1..MaxProcs
NULL == "NULL"
\* A key a dictionary does not hold (main.py's immediate payments carry no
\* scheduled_date key).
ABSENT == "ABSENT"

\* Identifiers a request can name.  "a1" and "a2" are stored at the start,
\* "a3" never is; "b1" is stored at the start, "b2" never is.
AccountIds == {"a1", "a2", "a3"}
BeneficiaryIds == {"b1", "b2"}
\* payment_id values of a request: NULL (not given), for which invocation i
\* draws the uuid4 "uuid<i>", which collides with nothing.
RequestPaymentIds == {NULL}
Currencies == {"USD", "usd"}
\* PaymentType values a request carries.
PaymentTypes == {"transfer"}

VARIABLES
    \* the relational store (Lambda world and main.py's accounts)
    accounts,        \* account_id -> [balance]
    beneficiaries,   \* set of stored beneficiary_id
    payments,        \* payment_id -> payment row
    \* one initiate_payment invocation per element of Procs
    pc,              \* position of the invocation in the handler
    request,         \* the validated PaymentRequest (NoRequest outside a call)
    response,        \* what the invocation returned or raised (NoResponse before)
    result,          \* what db.execute_transaction reported (NoResult if none)
    \* the MCP server (main.py)
    beneficiaries_db,
    payments_db,
    calls,           \* number of tool calls handled so far
    last,            \* the last tool call: its name, arguments and return value
    \* the Database singleton of one process (database.py) and its callers
    db_connection,   \* Database._instance.connection: 0 for None, else the object
    db_open,         \* the connection objects whose is_connected() is true
    db_calls,        \* number of method calls started so far
    db_pc,           \* position of each caller in the method it runs
    db_method,       \* the method each caller runs
    db_using,        \* the connection object each caller holds: the one it is
                     \* making, then the one its cursor belongs to (0: none)
    db_raised,       \* what the caller's call raised (NULL: it returned)
    \* the generic database service (genericdbservice) and the table it is asked for
    rows,            \* the rows of the table the store holds
    handled,         \* number of events handled so far
    reply            \* the last event, the DAO calls it led to and the response

vars == <<accounts, beneficiaries, payments, pc, request, response, result,
          beneficiaries_db, payments_db, calls, last,
          db_connection, db_open, db_calls, db_pc, db_method, db_using, db_raised,
          rows, handled, reply>>
storeVars == <<accounts, beneficiaries, payments>>
lambdaVars == <<pc, request, response, result>>
mainVars == <<beneficiaries_db, payments_db, calls, last>>
dbVars == <<db_connection, db_open, db_calls, db_pc, db_method, db_using, db_raised>>
genVars == <<rows, handled, reply>>

\* ------------------------------------------------------------- helpers
RECURSIVE SumOver(_, _)
\* Sum of f[x] over the finite set S of elements of DOMAIN f.
SumOver(f, S) ==
    IF S = {} THEN 0
    ELSE LET x == CHOOSE y \in S : TRUE
         IN  f[x] + SumOver(f, S \ {x})

\* The values of a variable outside its use, shaped like its values in use.
NoPayment ==
    [payment_id |-> NULL, amount |-> 0, currency |-> NULL, beneficiary_id |-> NULL,
     source_account_id |-> NULL, status |-> NULL, type |-> NULL,
     scheduled_date |-> NULL, created_at |-> NULL, completed_at |-> NULL]
NoRequest ==
    [payment_id |-> NULL, amount |-> 0, currency |-> NULL, beneficiary_id |-> NULL,
     source_account_id |-> NULL, type |-> NULL]
NoResponse == [status |-> NULL, kind |-> NULL, payment |-> NoPayment]
NoResult ==
    [transaction_success |-> FALSE, update_affected_rows |-> 0,
     insert_affected_rows |-> 0]

\* What a tool hands back: the ValueError it raises, or the record it returns.
Error(kind) == [status |-> "error", kind |-> kind, payment |-> NoPayment]
Success(payment) == [status |-> "success", kind |-> "ok", payment |-> payment]

\* ------------------------------------------------- Lambda: initiate_payment
\* The amounts a request carries: none, less than a balance of the start, the
\* whole of it, and more than it.
RequestAmounts == 0..(InitBalance + 1)
\* The request dictionaries a caller can send.
RequestData ==
    [payment_id : RequestPaymentIds,
     amount : RequestAmounts,
     currency : Currencies,
     beneficiary_id : BeneficiaryIds,
     source_account_id : AccountIds,
     type : PaymentTypes]

\* pydantic's check of PaymentRequest: amount gt=0, currency ^[A-Z]{3}$.
PaymentRequestValid(request_data) ==
    /\ request_data.amount > 0
    /\ request_data.currency = "USD"

\* request.payment_id after "if not request.payment_id: ... uuid4()".
PaymentIdOf(i, request_data) ==
    IF request_data.payment_id = NULL
    THEN "uuid" \o ToString(i)
    ELSE request_data.payment_id

\* Step 0: validate and prepare the request, one of request_dicts.
ValidateRequestFrom(i, request_dicts) ==
    /\ pc[i] = "start"
    /\ \E request_data \in request_dicts :
          IF PaymentRequestValid(request_data)
          THEN /\ request' = [request EXCEPT ![i] =
                     [request_data EXCEPT !.payment_id = PaymentIdOf(i, request_data)]]
               /\ pc' = [pc EXCEPT ![i] = "verify_beneficiary"]
               /\ UNCHANGED response
          ELSE /\ pc' = [pc EXCEPT ![i] = "done"]
               /\ response' = [response EXCEPT ![i] = Error("ValidationError")]
               /\ UNCHANGED request
    /\ UNCHANGED <<storeVars, result, mainVars, dbVars, genVars>>

ValidateRequest(i) == ValidateRequestFrom(i, RequestData)

\* Requests that name their payment_id themselves, or leave it out.
SuppliedPaymentIds == {"p1"}
RequestDataWithId ==
    [payment_id : {NULL} \cup SuppliedPaymentIds,
     amount : RequestAmounts \ {0},
     currency : {"USD"},
     beneficiary_id : {"b1"},
     source_account_id : {"a1", "a2"},
     type : PaymentTypes]

\* SELECT * FROM beneficiaries, every row (a query that lost its WHERE clause).
BeneficiaryQueryAllRows(bens, beneficiary_id) == bens

\* SELECT * FROM beneficiaries WHERE beneficiary_id = %s: the rows selected.
BeneficiaryQuery(bens, beneficiary_id) == bens \cap {beneficiary_id}

\* A beneficiary lookup that looks at the source account first.
VerifyBeneficiaryAfterAccount(i) ==
    /\ pc[i] = "verify_beneficiary"
    /\ IF request[i].source_account_id \notin DOMAIN accounts
       THEN /\ pc' = [pc EXCEPT ![i] = "done"]
            /\ response' = [response EXCEPT ![i] = Error("AccountNotFound")]
            /\ request' = [request EXCEPT ![i] = NoRequest]
       ELSE IF BeneficiaryQuery(beneficiaries, request[i].beneficiary_id) = {}
       THEN /\ pc' = [pc EXCEPT ![i] = "done"]
            /\ response' = [response EXCEPT ![i] = Error("BeneficiaryNotFound")]
            /\ request' = [request EXCEPT ![i] = NoRequest]
       ELSE /\ pc' = [pc EXCEPT ![i] = "verify_source_account"]
            /\ UNCHANGED <<response, request>>
    /\ UNCHANGED <<storeVars, result, mainVars, dbVars, genVars>>

\* Step 1: the beneficiary lookup through db.execute_query, which raises when
\* the store cannot be reached; "if not beneficiary_result" raises.
VerifyBeneficiary(i) ==
    /\ pc[i] = "verify_beneficiary"
    /\ \E store_up \in BOOLEAN :
          IF ~store_up
          THEN /\ pc' = [pc EXCEPT ![i] = "done"]
               /\ response' = [response EXCEPT ![i] = Error("StoreError")]
               /\ request' = [request EXCEPT ![i] = NoRequest]
          ELSE IF BeneficiaryQuery(beneficiaries, request[i].beneficiary_id) = {}
          THEN /\ pc' = [pc EXCEPT ![i] = "done"]
               /\ response' = [response EXCEPT ![i] = Error("BeneficiaryNotFound")]
               /\ request' = [request EXCEPT ![i] = NoRequest]
          ELSE /\ pc' = [pc EXCEPT ![i] = "verify_source_account"]
               /\ UNCHANGED <<response, request>>
    /\ UNCHANGED <<storeVars, result, mainVars, dbVars, genVars>>

\* The funds check with its operands the wrong way round.
InsufficientFundsReversed(source_account, req) ==
    req.amount < source_account.balance

\* Step 3: float(source_account['balance']) < float(request.amount).
InsufficientFunds(source_account, req) ==
    source_account.balance < req.amount

\* Steps 2 and 3: SELECT * FROM accounts WHERE account_id = %s, then the funds
\* check on the row that was read.
VerifySourceAccount(i) ==
    /\ pc[i] = "verify_source_account"
    /\ \E store_up \in BOOLEAN :
          IF ~store_up
          THEN /\ pc' = [pc EXCEPT ![i] = "done"]
               /\ response' = [response EXCEPT ![i] = Error("StoreError")]
               /\ request' = [request EXCEPT ![i] = NoRequest]
          ELSE IF request[i].source_account_id \notin DOMAIN accounts
          THEN /\ pc' = [pc EXCEPT ![i] = "done"]
               /\ response' = [response EXCEPT ![i] = Error("AccountNotFound")]
               /\ request' = [request EXCEPT ![i] = NoRequest]
          ELSE IF InsufficientFunds(accounts[request[i].source_account_id], request[i])
          THEN /\ pc' = [pc EXCEPT ![i] = "done"]
               /\ response' = [response EXCEPT ![i] = Error("InsufficientFunds")]
               /\ request' = [request EXCEPT ![i] = NoRequest]
          ELSE /\ pc' = [pc EXCEPT ![i] = "execute_transaction"]
               /\ UNCHANGED <<response, request>>
    /\ UNCHANGED <<storeVars, result, mainVars, dbVars, genVars>>

\* Step 4: the payment record the handler prepares.
PaymentRecord(req) ==
    [payment_id |-> req.payment_id,
     amount |-> req.amount,
     currency |-> req.currency,
     beneficiary_id |-> req.beneficiary_id,
     source_account_id |-> req.source_account_id,
     status |-> "completed",
     type |-> req.type,
     scheduled_date |-> NULL,
     created_at |-> "now",
     completed_at |-> "now"]

\* Step 5: UPDATE accounts SET balance = balance - %s WHERE account_id = %s.
UpdateSourceQuery(accts, amount, account_id) ==
    IF account_id \in DOMAIN accts
    THEN [accts EXCEPT ![account_id].balance = @ - amount]
    ELSE accts

\* Rows the UPDATE affects.
UpdateAffectedRows(accts, account_id) ==
    IF account_id \in DOMAIN accts THEN 1 ELSE 0

\* The columns of the payments table initialize_tables creates.
CreatedPaymentColumns ==
    {"payment_id", "amount", "currency", "beneficiary_id", "status", "type",
     "scheduled_date", "created_at", "completed_at"}
\* The columns the INSERT of initiate_payment names.
InsertPaymentColumns == CreatedPaymentColumns \cup {"source_account_id"}

\* The INSERT raises: a column the table does not have (error 1054), or a
\* payment_id that is already stored (primary key, error 1062).
InsertPaymentRaises(pays, payment, columns) ==
    \/ ~(InsertPaymentColumns \subseteq columns)
    \/ payment.payment_id \in DOMAIN pays

\* Step 5: INSERT INTO payments (...) VALUES (...) on a table with these
\* columns: the rows stored afterwards.
InsertPaymentQuery(pays, payment, columns) ==
    IF InsertPaymentRaises(pays, payment, columns) THEN pays
    ELSE [p \in DOMAIN pays \cup {payment.payment_id} |->
             IF p = payment.payment_id THEN payment ELSE pays[p]]

\* The two statements sent one after the other through db.execute_update,
\* which commits each: the debit is committed, then the INSERT runs and, when
\* it raises, the debit stays.
execute_transaction_by_updates(accts, pays, amount, account_id, payment) ==
    IF InsertPaymentRaises(pays, payment, CreatedPaymentColumns)
    THEN [accounts |-> UpdateSourceQuery(accts, amount, account_id),
          payments |-> pays, raised |-> "Error", result |-> NoResult]
    ELSE [accounts |-> UpdateSourceQuery(accts, amount, account_id),
          payments |-> InsertPaymentQuery(pays, payment, CreatedPaymentColumns),
          raised |-> NULL,
          result |-> [transaction_success |-> TRUE,
                      update_affected_rows |-> UpdateAffectedRows(accts, account_id),
                      insert_affected_rows |-> 1]]

\* db.execute_transaction(transaction_queries): the Database class of
\* database.py has connect, disconnect, execute_query, execute_update and
\* initialize_tables and no execute_transaction, so the attribute lookup
\* raises AttributeError before a statement is sent: the store is left as it
\* is and there is no result.
execute_transaction(accts, pays, amount, account_id, payment) ==
    [accounts |-> accts, payments |-> pays, raised |-> "AttributeError",
     result |-> NoResult]

\* Step 6: the handler's reading of the transaction's result: it goes on when
\* transaction_success is set (a row count other than 1 is only logged) and
\* raises otherwise.
TransactionAccepted(res) ==
    res.transaction_success

\* Steps 4 to 7: prepare the record and the two statements, call
\* db.execute_transaction, return the record or raise.  What the call raises
\* is not a ValueError, so it passes the inner handler and the outer
\* "except Exception" raises ValueError("Invalid payment data: ...").
ExecuteTransaction(i) ==
    /\ pc[i] = "execute_transaction"
    /\ LET req == request[i]
           payment == PaymentRecord(req)
           done == execute_transaction(accounts, payments, req.amount,
                                       req.source_account_id, payment)
       IN  /\ accounts' = done.accounts
           /\ payments' = done.payments
           /\ result' = [result EXCEPT ![i] = done.result]
           /\ response' = [response EXCEPT ![i] =
                 IF done.raised # NULL THEN Error(done.raised)
                 ELSE IF TransactionAccepted(done.result) THEN Success(payment)
                 ELSE Error("TransactionFailed")]
    /\ pc' = [pc EXCEPT ![i] = "done"]
    /\ request' = [request EXCEPT ![i] = NoRequest]
    /\ UNCHANGED <<beneficiaries, mainVars, dbVars, genVars>>

\* The payment rows the generic database service is asked to create: they
\* carry the columns of the payments table (it has no source_account_id) and
\* a payment_id of the caller's.
CreatedPayments ==
    {[payment_id |-> payment_id, amount |-> 1, currency |-> "USD",
      beneficiary_id |-> "b1", source_account_id |-> ABSENT,
      status |-> "completed", type |-> "transfer", scheduled_date |-> NULL,
      created_at |-> "now", completed_at |-> "now"] :
         payment_id \in SuppliedPaymentIds}

\* The generic database service's create action on the payments table:
\* INSERT INTO payments (...) VALUES (...), which the primary key refuses
\* for a payment_id that is stored.
DaoCreatePayment(payment) ==
    /\ payment.payment_id \notin DOMAIN payments
    /\ payments' = [p \in DOMAIN payments \cup {payment.payment_id} |->
                        IF p = payment.payment_id THEN payment ELSE payments[p]]
    /\ UNCHANGED <<accounts, beneficiaries, lambdaVars, mainVars, dbVars, genVars>>

\* The generic database service's delete action on the accounts table:
\* DELETE FROM accounts WHERE account_id = %s.
DaoDeleteAccount(account_id) ==
    /\ account_id \in DOMAIN accounts
    /\ accounts' = [a \in DOMAIN accounts \ {account_id} |-> accounts[a]]
    /\ UNCHANGED <<beneficiaries, payments, lambdaVars, mainVars,
                   dbVars, genVars>>

\* The rows the store holds at the start; its payments table is the one
\* initialize_tables creates, with the columns CreatedPaymentColumns.
InitStore ==
    /\ accounts = [a \in {"a1", "a2"} |-> [balance |-> InitBalance]]
    /\ beneficiaries = {"b1"}
    /\ payments = << >>

InitLambda ==
    /\ pc = [i \in Procs |-> "start"]
    /\ request = [i \in Procs |-> NoRequest]
    /\ response = [i \in Procs |-> NoResponse]
    /\ result = [i \in Procs |-> NoResult]

\* ---------------------------------------------------------- main.py tools
\* An identifier source that hands out the same value on every call.
NewIdRepeated(kind, k) == kind \o ToString(1)

\* The identifiers uuid4() hands out, one per call: call k draws "<kind>k".
NewId(kind, k) == kind \o ToString(k)
\* Identifiers a caller can name: every one the server can have drawn.
CallIds(kind) == {NewId(kind, k) : k \in 1..MaxCalls}
MainCurrencies == {"USD", "EUR"}
BeneficiaryNames == {"Ann"}
BankCodes == {"BC1"}
\* The datetime values a caller schedules for, and datetime.isoformat().
ScheduledDates == {"2031-01-01 09:00:00"}
IsoFormat(scheduled_date) ==
    CASE scheduled_date = "2031-01-01 09:00:00" -> "2031-01-01T09:00:00"

NoMainPayment ==
    [payment_id |-> NULL, amount |-> 0, currency |-> NULL, beneficiary_id |-> NULL,
     status |-> NULL, type |-> NULL, scheduled_date |-> NULL, created_at |-> 0,
     completed_at |-> NULL]

\* The filters of a search_payment_history call; an Optional argument is the
\* empty set when it is None and the set holding its value otherwise.
NoFilters ==
    [start_date |-> {}, end_date |-> {}, min_amount |-> {}, max_amount |-> {},
     currency |-> {}, status |-> {}, payment_type |-> {}, beneficiary_id |-> {},
     sort_by |-> "created_at", sort_order |-> "desc", limit |-> {}]

\* A Python float near a multiple of a tenth: the number t/10 + k/(5 * 2^56).
\* Every double between 2^-4 and 2^3 is a multiple of 2^-56, so it has one
\* such form for each t, and k stays far below 2^55.
Double(t, k) == [t |-> t, k |-> k]
\* The dictionary get_payment_statistics returns when nothing is stored.
NoStatistics ==
    [total_payments |-> 0, total_amount |-> Double(0, 0), status_breakdown |-> << >>,
     currency_breakdown |-> << >>, type_breakdown |-> << >>]

\* A tool call and its return value: the id it was given or drew, the status
\* and message of the dictionary it returned (status "error" also stands for a
\* dictionary with an "error" key; a returned list has no status), the payment
\* or the rows it returned, and what get_db_connection() gave it (ABSENT when
\* the tool asks for no connection).
Call(tool, id, status, message, payment) ==
    [tool |-> tool, id |-> id, status |-> status, message |-> message,
     payment |-> payment, account_rows |-> {}, payment_rows |-> << >>,
     filters |-> NoFilters, connection |-> ABSENT,
     beneficiary_rows |-> << >>, statistics |-> NoStatistics]
NoCall == Call(NULL, NULL, NULL, NULL, NoMainPayment)

\* dict[key] = value
Put(dict, key, value) ==
    [k \in DOMAIN dict \cup {key} |-> IF k = key THEN value ELSE dict[k]]
\* dict.clear(): every key goes, not only the one named.
DelEvery(dict, key) == << >>

\* del dict[key]
Del(dict, key) == [k \in DOMAIN dict \ {key} |-> dict[k]]

add_beneficiary(name, account_number, bank_code) ==
    /\ calls < MaxCalls
    /\ LET beneficiary_id == NewId("ben", calls + 1)
       IN  /\ beneficiaries_db' = Put(beneficiaries_db, beneficiary_id,
                  [beneficiary_id |-> beneficiary_id, name |-> name,
                   account_number |-> account_number, bank_code |-> bank_code])
           /\ last' = Call("add_beneficiary", beneficiary_id, "ok", NULL, NoMainPayment)
    /\ calls' = calls + 1
    /\ UNCHANGED <<payments_db, storeVars, lambdaVars, dbVars, genVars>>

delete_beneficiary(beneficiary_id) ==
    /\ calls < MaxCalls
    /\ IF beneficiary_id \in DOMAIN beneficiaries_db
       THEN /\ beneficiaries_db' = Del(beneficiaries_db, beneficiary_id)
            /\ last' = Call("delete_beneficiary", beneficiary_id, "success",
                            "Beneficiary deleted successfully", NoMainPayment)
       ELSE /\ UNCHANGED beneficiaries_db
            /\ last' = Call("delete_beneficiary", beneficiary_id, "error",
                            "Beneficiary not found", NoMainPayment)
    /\ calls' = calls + 1
    /\ UNCHANGED <<payments_db, storeVars, lambdaVars, dbVars, genVars>>

\* An immediate payment stored as completed with no completion time.
ImmediatePaymentCompletedUnstamped(payment_id, amount, currency, beneficiary_id, now) ==
    [payment_id |-> payment_id, amount |-> amount, currency |-> currency,
     beneficiary_id |-> beneficiary_id, status |-> "COMPLETED", type |-> "IMMEDIATE",
     scheduled_date |-> ABSENT, created_at |-> now, completed_at |-> NULL]

\* The payment dictionary main.py's initiate_payment builds.
ImmediatePayment(payment_id, amount, currency, beneficiary_id, now) ==
    [payment_id |-> payment_id, amount |-> amount, currency |-> currency,
     beneficiary_id |-> beneficiary_id, status |-> "PENDING", type |-> "IMMEDIATE",
     scheduled_date |-> ABSENT, created_at |-> now, completed_at |-> NULL]

initiate_payment(amount, currency, beneficiary_id) ==
    /\ calls < MaxCalls
    /\ IF beneficiary_id \notin DOMAIN beneficiaries_db
       THEN /\ UNCHANGED payments_db
            /\ last' = Call("initiate_payment", NULL, "error",
                            "Beneficiary not found", NoMainPayment)
       ELSE LET payment_id == NewId("pay", calls + 1)
                payment == ImmediatePayment(payment_id, amount, currency,
                                            beneficiary_id, calls + 1)
            IN  /\ payments_db' = Put(payments_db, payment_id, payment)
                /\ last' = Call("initiate_payment", payment_id, "ok", NULL, payment)
    /\ calls' = calls + 1
    /\ UNCHANGED <<beneficiaries_db, storeVars, lambdaVars, dbVars, genVars>>

\* schedule_payment storing the status of an immediate payment.
ScheduledPaymentPending(payment_id, amount, currency, beneficiary_id, scheduled_date, now) ==
    [payment_id |-> payment_id, amount |-> amount, currency |-> currency,
     beneficiary_id |-> beneficiary_id, status |-> "PENDING", type |-> "SCHEDULED",
     scheduled_date |-> IsoFormat(scheduled_date), created_at |-> now, completed_at |-> NULL]

\* The payment dictionary main.py's schedule_payment builds.
ScheduledPayment(payment_id, amount, currency, beneficiary_id, scheduled_date, now) ==
    [payment_id |-> payment_id, amount |-> amount, currency |-> currency,
     beneficiary_id |-> beneficiary_id, status |-> "SCHEDULED", type |-> "SCHEDULED",
     scheduled_date |-> IsoFormat(scheduled_date), created_at |-> now, completed_at |-> NULL]

schedule_payment(amount, currency, beneficiary_id, scheduled_date) ==
    /\ calls < MaxCalls
    /\ IF beneficiary_id \notin DOMAIN beneficiaries_db
       THEN /\ UNCHANGED payments_db
            /\ last' = Call("schedule_payment", NULL, "error",
                            "Beneficiary not found", NoMainPayment)
       ELSE LET payment_id == NewId("pay", calls + 1)
                payment == ScheduledPayment(payment_id, amount, currency,
                                            beneficiary_id, scheduled_date, calls + 1)
            IN  /\ payments_db' = Put(payments_db, payment_id, payment)
                /\ last' = Call("schedule_payment", payment_id, "ok", NULL, payment)
    /\ calls' = calls + 1
    /\ UNCHANGED <<beneficiaries_db, storeVars, lambdaVars, dbVars, genVars>>

\* A guard that refuses only payments already cancelled.
NotCancellableOnlyCancelled(payment) == payment.status = "CANCELLED"

\* payment["status"] != "SCHEDULED"
NotCancellable(payment) == payment.status # "SCHEDULED"

cancel_payment(payment_id) ==
    /\ calls < MaxCalls
    /\ IF payment_id \notin DOMAIN payments_db
       THEN /\ UNCHANGED payments_db
            /\ last' = Call("cancel_payment", payment_id, "error",
                            "Payment not found", NoMainPayment)
       ELSE IF NotCancellable(payments_db[payment_id])
       THEN /\ UNCHANGED payments_db
            /\ last' = Call("cancel_payment", payment_id, "error",
                            "Only scheduled payments can be cancelled", NoMainPayment)
       ELSE /\ payments_db' = [payments_db EXCEPT ![payment_id].status = "CANCELLED"]
            /\ last' = Call("cancel_payment", payment_id, "CANCELLED",
                            "Payment cancelled successfully", NoMainPayment)
    /\ calls' = calls + 1
    /\ UNCHANGED <<beneficiaries_db, storeVars, lambdaVars, dbVars, genVars>>

\* ---------------------------------------------- account tools on the store
\* db_config.get_db_connection(): a connection, or None when the store cannot
\* be reached.
get_db_connection(store_up) == IF store_up THEN "connection" ELSE NULL

\* The balances a caller opens an account with.
AccountBalances == {0, InitBalance}
\* Optional[float] bounds of list_accounts: None, or a value.
BalanceBounds == {{}, {1}}

\* INSERT INTO accounts (account_id, ..., balance, ...): the primary key refuses
\* a second row under a stored account_id.
InsertAccountQuery(accts, account_id, balance) ==
    IF account_id \in DOMAIN accts THEN accts
    ELSE Put(accts, account_id, [balance |-> balance])

\* The row of account a as a listing returns it.
AccountRow(accts, a) == [account_id |-> a, balance |-> accts[a].balance]

\* SELECT * FROM accounts WHERE 1=1 [AND balance >= %s] [AND balance <= %s];
\* the order of the rows is left out.
AccountsQuery(accts, min_balance, max_balance) ==
    {AccountRow(accts, a) : a \in
        {b \in DOMAIN accts :
            /\ \A m \in min_balance : accts[b].balance >= m
            /\ \A m \in max_balance : accts[b].balance <= m}}

\* main.py's list_accounts: an empty list when there is no connection.
list_accounts(min_balance, max_balance, store_up) ==
    /\ calls < MaxCalls
    /\ LET connection == get_db_connection(store_up)
           returned == Call("list_accounts", NULL, NULL, NULL, NoMainPayment)
       IN  IF connection = NULL
           THEN last' = [returned EXCEPT !.connection = connection]
           ELSE last' = [returned EXCEPT
                            !.account_rows = AccountsQuery(accounts, min_balance, max_balance),
                            !.connection = connection]
    /\ calls' = calls + 1
    /\ UNCHANGED <<beneficiaries_db, payments_db, storeVars, lambdaVars, dbVars, genVars>>

\* main.py's add_account: a row under a fresh uuid4.
add_account(account_type, balance, currency, store_up) ==
    /\ calls < MaxCalls
    /\ LET connection == get_db_connection(store_up)
           account_id == NewId("acc", calls + 1)
       IN  IF connection = NULL
           THEN /\ UNCHANGED accounts
                /\ last' = [Call("add_account", NULL, "error",
                                 "Database connection failed", NoMainPayment)
                            EXCEPT !.connection = connection]
           ELSE /\ accounts' = InsertAccountQuery(accounts, account_id, balance)
                /\ last' = [Call("add_account", account_id, "ok", NULL, NoMainPayment)
                            EXCEPT !.account_rows = {[account_id |-> account_id,
                                                      balance |-> balance]},
                                   !.connection = connection]
    /\ calls' = calls + 1
    /\ UNCHANGED <<beneficiaries_db, payments_db, beneficiaries, payments,
                   lambdaVars, dbVars, genVars>>

\* The lists add_multiple_accounts is sent: no, one or two account
\* dictionaries.
AccountData(balance) ==
    [account_type |-> "SAVINGS", balance |-> balance, currency |-> "USD"]
AccountLists ==
    {<< >>, <<AccountData(0)>>, <<AccountData(0), AccountData(InitBalance)>>}

\* The uuid4 drawn for the j-th account of the call with index k.
NewIdOfList(kind, k, j) == NewId(kind, k) \o "_" \o ToString(j)

RECURSIVE InsertAccounts(_, _, _, _)
\* The loop of add_multiple_accounts from its j-th dictionary on: one INSERT
\* each, under a fresh uuid4.
InsertAccounts(accts, account_list, k, j) ==
    IF j > Len(account_list) THEN accts
    ELSE InsertAccounts(InsertAccountQuery(accts, NewIdOfList("acc", k, j),
                                           account_list[j].balance),
                        account_list, k, j + 1)

\* main.py's add_multiple_accounts: one row per dictionary of the list, all
\* committed together at the end.
add_multiple_accounts(account_list, store_up) ==
    /\ calls < MaxCalls
    /\ LET connection == get_db_connection(store_up)
       IN  IF connection = NULL
           THEN /\ UNCHANGED accounts
                /\ last' = [Call("add_multiple_accounts", NULL, "error",
                                 "Database connection failed", NoMainPayment)
                            EXCEPT !.connection = connection]
           ELSE /\ accounts' = InsertAccounts(accounts, account_list, calls + 1, 1)
                /\ last' = [Call("add_multiple_accounts", NULL, "ok", NULL,
                                 NoMainPayment)
                            EXCEPT !.account_rows =
                                      {[account_id |-> NewIdOfList("acc", calls + 1, j),
                                        balance |-> account_list[j].balance] :
                                          j \in DOMAIN account_list},
                                   !.connection = connection]
    /\ calls' = calls + 1
    /\ UNCHANGED <<beneficiaries_db, payments_db, beneficiaries, payments,
                   lambdaVars, dbVars, genVars>>

\* main.py's get_account_balance resource.
get_account_balance(account_id, store_up) ==
    /\ calls < MaxCalls
    /\ LET connection == get_db_connection(store_up)
       IN  IF connection = NULL
           THEN last' = [Call("get_account_balance", account_id, "error",
                              "Database connection failed", NoMainPayment)
                         EXCEPT !.connection = connection]
           ELSE IF account_id \notin DOMAIN accounts
           THEN last' = [Call("get_account_balance", account_id, "error",
                              "Account not found", NoMainPayment)
                         EXCEPT !.connection = connection]
           ELSE last' = [Call("get_account_balance", account_id, "ok", NULL,
                              NoMainPayment)
                         EXCEPT !.account_rows = {AccountRow(accounts, account_id)},
                                !.connection = connection]
    /\ calls' = calls + 1
    /\ UNCHANGED <<beneficiaries_db, payments_db, storeVars, lambdaVars, dbVars, genVars>>

\* The Lambda tool create_account: validate the request (every balance is
\* accepted), prepare the INSERT under the account_id the request carries, or
\* under a fresh uuid4 when it carries none, and call db.execute_transaction,
\* which raises AttributeError (the Database class has no such method): the
\* outer handler raises ValueError("Invalid request data: ...") and no row is
\* stored.
create_account(request_account_id, balance) ==
    /\ calls < MaxCalls
    /\ LET account_id == IF request_account_id = NULL
                         THEN NewId("acc", calls + 1)
                         ELSE request_account_id
       IN  last' = Call("create_account", account_id, "error",
                        "Invalid request data: AttributeError", NoMainPayment)
    /\ calls' = calls + 1
    /\ UNCHANGED <<beneficiaries_db, payments_db, storeVars, lambdaVars,
                   dbVars, genVars>>

\* The request dictionaries create_beneficiary is sent: they name their
\* beneficiary_id, and their name can be the empty string.
BeneficiaryRequestData ==
    [beneficiary_id : BeneficiaryIds, name : {"", "Bob"},
     account_number : {"0002"}, bank_code : {"BC1"}]

\* pydantic's check of BeneficiaryRequest: name, account_number and bank_code
\* have min_length=1.
BeneficiaryRequestValid(request_data) ==
    /\ request_data.name # ""
    /\ request_data.account_number # ""
    /\ request_data.bank_code # ""

\* The Lambda tool create_beneficiary: validate the request, prepare the
\* INSERT and call db.execute_transaction, which raises AttributeError (the
\* Database class has no such method).  Either way the outer handler raises
\* ValueError("Invalid beneficiary data: ...") and no row is stored; the
\* message carries what was raised inside.
create_beneficiary(request_data) ==
    /\ calls < MaxCalls
    /\ last' = Call("create_beneficiary", request_data.beneficiary_id, "error",
                    IF BeneficiaryRequestValid(request_data)
                    THEN "Invalid beneficiary data: AttributeError"
                    ELSE "Invalid beneficiary data: ValidationError",
                    NoMainPayment)
    /\ calls' = calls + 1
    /\ UNCHANGED <<beneficiaries_db, payments_db, storeVars, lambdaVars,
                   dbVars, genVars>>

\* ------------------------------------------- main.py: search_payment_history
\* The arguments a caller searches with.  Times are the logical times of
\* created_at (the index of the creating call); the empty string is a str
\* argument like any other.
SearchDates == {2}
SearchAmounts == {1}
SearchStrings ==
    [currency |-> {"", "USD"}, status |-> {"", "SCHEDULED"},
     payment_type |-> {"IMMEDIATE"}, beneficiary_id |-> {"ben1"}]
FilterNames ==
    {"start_date", "end_date", "min_amount", "max_amount", "currency", "status",
     "payment_type", "beneficiary_id"}
Optional(values) == {{}} \cup {{v} : v \in values}
\* Searches with up to two filters and the default order, and searches with no
\* filter and any order and limit.
SearchArgs ==
    {f \in [start_date : Optional(SearchDates), end_date : Optional(SearchDates),
            min_amount : Optional(SearchAmounts), max_amount : Optional(SearchAmounts),
            currency : Optional(SearchStrings.currency),
            status : Optional(SearchStrings.status),
            payment_type : Optional(SearchStrings.payment_type),
            beneficiary_id : Optional(SearchStrings.beneficiary_id),
            sort_by : {"created_at"}, sort_order : {"desc"}, limit : {{}}] :
        \E g, h \in FilterNames : \A k \in FilterNames \ {g, h} : f[k] = {}}
    \cup
    {[NoFilters EXCEPT !.sort_by = sort_by, !.sort_order = sort_order, !.limit = limit] :
        sort_by \in {"created_at", "amount", "scheduled_date", "status"},
        sort_order \in {"asc", "desc"},
        limit \in Optional({-1, 0, 1})}

RECURSIVE Values(_)
\* list(dict.values()): the values in insertion order, which for payments_db
\* is the order of created_at.
Values(dict) ==
    IF DOMAIN dict = {} THEN << >>
    ELSE LET first == CHOOSE k \in DOMAIN dict :
                         \A j \in DOMAIN dict : dict[k].created_at <= dict[j].created_at
         IN  <<dict[first]>> \o Values(Del(dict, first))

\* The filters of search_payment_history on one payment: "if start_date:" and
\* the like skip a filter that is None or falsy (the empty string); the amount
\* bounds are tested with "is not None".
Matches(payment, f) ==
    /\ \A d \in f.start_date : payment.created_at >= d
    /\ \A d \in f.end_date : payment.created_at <= d
    /\ \A m \in f.min_amount : payment.amount >= m
    /\ \A m \in f.max_amount : payment.amount <= m
    /\ \A c \in f.currency : c # "" => payment.currency = c
    /\ \A c \in f.status : c # "" => payment.status = c
    /\ \A c \in f.payment_type : c # "" => payment.type = c
    /\ \A c \in f.beneficiary_id : c # "" => payment.beneficiary_id = c

\* The sort key: x["created_at"], x["amount"] or x.get("scheduled_date", ""),
\* the last as its rank (the empty string sorts before every date).
SortKey(payment, sort_by) ==
    CASE sort_by = "created_at" -> payment.created_at
      [] sort_by = "amount" -> payment.amount
      [] sort_by = "scheduled_date" -> IF payment.scheduled_date = ABSENT THEN 0 ELSE 1

\* One element put into a sorted list behind every element it does not precede.
Insert(sorted, payment, sort_by, reverse) ==
    LET behind == {i \in 1..Len(sorted) :
                      IF reverse
                      THEN SortKey(sorted[i], sort_by) < SortKey(payment, sort_by)
                      ELSE SortKey(sorted[i], sort_by) > SortKey(payment, sort_by)}
        pos == IF behind = {} THEN Len(sorted) + 1
               ELSE CHOOSE i \in behind : \A j \in behind : i <= j
    IN  SubSeq(sorted, 1, pos - 1) \o <<payment>> \o SubSeq(sorted, pos, Len(sorted))

RECURSIVE SortFrom(_, _, _, _)
SortFrom(sorted, rest, sort_by, reverse) ==
    IF rest = << >> THEN sorted
    ELSE SortFrom(Insert(sorted, Head(rest), sort_by, reverse), Tail(rest),
                  sort_by, reverse)

\* payments.sort(key=..., reverse=reverse), a stable sort, for the three known
\* sort fields; any other sort_by leaves the list as it is.
Sort(payments_list, sort_by, reverse) ==
    IF sort_by \in {"created_at", "amount", "scheduled_date"}
    THEN SortFrom(<< >>, payments_list, sort_by, reverse)
    ELSE payments_list

\* payments[:limit] when limit is not None: a negative limit counts from the end.
Slice(payments_list, limit) ==
    IF limit = {} THEN payments_list
    ELSE LET l == CHOOSE x \in limit : TRUE
             n == Len(payments_list)
             stop == IF l >= 0 THEN (IF l < n THEN l ELSE n)
                     ELSE (IF n + l > 0 THEN n + l ELSE 0)
         IN  SubSeq(payments_list, 1, stop)

\* The list search_payment_history returns.
SearchResult(dict, f) ==
    Slice(Sort(SelectSeq(Values(dict), LAMBDA payment : Matches(payment, f)),
               f.sort_by, f.sort_order = "desc"),
          f.limit)

\* A search that keeps in the store only the payments it returns.
search_payment_history_popping(f) ==
    /\ calls < MaxCalls
    /\ last' = [Call("search_payment_history", NULL, NULL, NULL, NoMainPayment)
                EXCEPT !.payment_rows = SearchResult(payments_db, f),
                       !.filters = f]
    /\ payments_db' = [k \in {j \in DOMAIN payments_db : Matches(payments_db[j], f)}
                          |-> payments_db[k]]
    /\ calls' = calls + 1
    /\ UNCHANGED <<beneficiaries_db, storeVars, lambdaVars, dbVars, genVars>>

search_payment_history(f) ==
    /\ calls < MaxCalls
    /\ last' = [Call("search_payment_history", NULL, NULL, NULL, NoMainPayment)
                EXCEPT !.payment_rows = SearchResult(payments_db, f),
                       !.filters = f]
    /\ calls' = calls + 1
    /\ UNCHANGED <<beneficiaries_db, payments_db, storeVars, lambdaVars, dbVars, genVars>>

\* ------------------------------------------------ main.py: the other queries
\* Arguments of search_beneficiaries, and str.lower() and the substring test
\* "x in y" on the strings that occur.
BeneficiaryQueries == {"", "AN", "bob"}
Lower(string) ==
    CASE string = "Ann" -> "ann"
      [] string = "AN" -> "an"
      [] string = "DELETE" -> "delete"
      [] OTHER -> string
SubstringOf(string, other) ==
    \/ string = ""
    \/ string = other
    \/ string = "an" /\ other = "ann"

RECURSIVE ValuesFrom(_, _)
\* list(beneficiaries_db.values()): the values in insertion order, which is
\* the order of the calls that drew their identifiers.
ValuesFrom(dict, k) ==
    IF k > MaxCalls THEN << >>
    ELSE (IF NewId("ben", k) \in DOMAIN dict THEN <<dict[NewId("ben", k)]>> ELSE << >>)
         \o ValuesFrom(dict, k + 1)

\* search_beneficiaries: "if name:" and "if bank_code:" skip a filter that is
\* None or the empty string.
search_beneficiaries(name, bank_code) ==
    /\ calls < MaxCalls
    /\ LET Kept(b) ==
               /\ \A n \in name : n # "" => SubstringOf(Lower(n), Lower(b.name))
               /\ \A c \in bank_code : c # "" => b.bank_code = c
       IN  last' = [Call("search_beneficiaries", NULL, NULL, NULL, NoMainPayment)
                    EXCEPT !.beneficiary_rows =
                              SelectSeq(ValuesFrom(beneficiaries_db, 1), Kept)]
    /\ calls' = calls + 1
    /\ UNCHANGED <<beneficiaries_db, payments_db, storeVars, lambdaVars, dbVars, genVars>>

\* ---- float arithmetic: p["amount"] is a Python float, and the model counts
\* the amounts of main.py's payments in tenths of a currency unit.
RECURSIVE Pow2(_)
Pow2(n) == IF n = 0 THEN 1 ELSE 2 * Pow2(n - 1)
\* 2^m modulo 5
Pow2Mod5(m) == CASE m % 4 = 0 -> 1 [] m % 4 = 1 -> 2 [] m % 4 = 2 -> 4 [] m % 4 = 3 -> 3
\* x < b/10
Below(x, b) == x.t < b \/ (x.t = b /\ x.k < 0)
\* The binade of x > 0, as the exponent j of its unit in the last place,
\* 2^(j-56): x lies in [2^(j-4), 2^(j-3)).
Binade(x) ==
    IF Below(x, 5) THEN (IF x.t <= 1 THEN 0 ELSE IF x.t = 2 THEN 1 ELSE 2)
    ELSE IF Below(x, 10) THEN 3
    ELSE IF Below(x, 20) THEN 4
    ELSE IF Below(x, 40) THEN 5
    ELSE 6
\* x * 5 * 2^56 = t * 2^55 + k modulo 5 * 2^j, the unit in the last place
Residue(x, j) == (x.t * Pow2(j) * Pow2Mod5(55 - j) + x.k) % (5 * Pow2(j))
\* The double nearest to x, ties to the even one (IEEE 754 binary64).
RoundToDouble(x) ==
    IF x.t = 0 THEN x
    ELSE LET j == Binade(x)
             ulp == 5 * Pow2(j)
             r == Residue(x, j)
         IN  IF 2 * r < ulp \/ (2 * r = ulp /\ Residue(x, j + 1) = r)
             THEN Double(x.t, x.k - r)
             ELSE Double(x.t, x.k - r + ulp)
\* The float an amount is, and x + y on floats.
Float(amount) == RoundToDouble(Double(amount, 0))
FloatAdd(x, y) == RoundToDouble(Double(x.t + y.t, x.k + y.k))

RECURSIVE AddEach(_, _)
\* total += x for every x of the list, in its order
AddEach(total, amounts) ==
    IF amounts = << >> THEN total
    ELSE AddEach(FloatAdd(total, Float(Head(amounts))), Tail(amounts))
RECURSIVE ExactSum(_)
ExactSum(amounts) ==
    IF amounts = << >> THEN Double(0, 0)
    ELSE LET x == Float(Head(amounts))
             rest == ExactSum(Tail(amounts))
         IN  Double(x.t + rest.t, x.k + rest.k)
\* The builtin sum(): running float additions up to Python 3.11; from 3.12 on
\* a compensated sum, which on these amounts is the exact sum rounded once.
Sum(amounts, compensated) ==
    IF compensated THEN RoundToDouble(ExactSum(amounts))
    ELSE AddEach(Double(0, 0), amounts)

\* The payments get_payment_statistics counts: "if start_date:" and
\* "if end_date:" skip a bound that is None (a datetime is never falsy).
InPeriod(payment, start_date, end_date) ==
    /\ \A d \in start_date : payment.created_at >= d
    /\ \A d \in end_date : payment.created_at <= d

\* The dictionary get_payment_statistics returns (period and last_updated
\* left out).
Statistics(dict, start_date, end_date, compensated) ==
    LET payments_list ==
            SelectSeq(Values(dict), LAMBDA p : InPeriod(p, start_date, end_date))
        Rows == {payments_list[i] : i \in DOMAIN payments_list}
        Count(S) == Cardinality(S)
        AmountsIn(currency) ==
            LET In(p) == p.currency = currency
                kept == SelectSeq(payments_list, In)
            IN  [i \in DOMAIN kept |-> kept[i].amount]
    IN  [total_payments |-> Len(payments_list),
         total_amount |->
            Sum([i \in DOMAIN payments_list |-> payments_list[i].amount], compensated),
         status_breakdown |->
            [s \in {p.status : p \in Rows} |-> Count({p \in Rows : p.status = s})],
         currency_breakdown |->
            [c \in {p.currency : p \in Rows} |-> AddEach(Double(0, 0), AmountsIn(c))],
         type_breakdown |->
            [t \in {p.type : p \in Rows} |-> Count({p \in Rows : p.type = t})]]

get_payment_statistics(start_date, end_date, compensated) ==
    /\ calls < MaxCalls
    /\ last' = [Call("get_payment_statistics", NULL, NULL, NULL, NoMainPayment)
                EXCEPT !.statistics =
                          Statistics(payments_db, start_date, end_date, compensated),
                       !.filters = [NoFilters EXCEPT !.start_date = start_date,
                                                     !.end_date = end_date]]
    /\ calls' = calls + 1
    /\ UNCHANGED <<beneficiaries_db, payments_db, storeVars, lambdaVars, dbVars, genVars>>

\* ------------------------------------------- database.py: the Database singleton
\* The callers of the methods of the one object db = Database() of a process.
\* The tools call them one after the other (SerialDbSpec); DbSpec lets the
\* calls of different callers overlap, which nothing in the class prevents.
Callers == 1..MaxCallers
DbMethods == {"execute_query", "execute_update", "initialize_tables"}

\* self.connection is None or not self.connection.is_connected()
NotConnected(connection, open) == connection = 0 \/ connection \notin open

\* What the "except Error" clause of the method lets out for a mysql Error:
\* execute_query re-raises it; execute_update and initialize_tables first call
\* self.connection.rollback(), which raises AttributeError on None and a mysql
\* Error of its own on a closed connection.
ExceptError(method, connection) ==
    IF method \in {"execute_update", "initialize_tables"} /\ connection = 0
    THEN "AttributeError"
    ELSE "Error"

\* A disconnect() that leaves the connection open.
CloseNothing(connection, open) == open

\* disconnect(): close the singleton's connection if it is open.
Close(connection, open) == open \ {connection}

\* The start of a method: self.connect() up to its test of self.connection.
\* A caller that finds no open connection goes on to make one (the SSL file
\* check, then mysql.connector.connect, which blocks); db_using holds the
\* object that call is going to return; nothing locks the singleton meanwhile.
Connect(t, method, ssl_ca_exists, store_up) ==
    /\ db_pc[t] = "idle"
    /\ db_calls < MaxDbCalls
    /\ db_calls' = db_calls + 1
    /\ db_method' = [db_method EXCEPT ![t] = method]
    /\ IF NotConnected(db_connection, db_open)
       THEN IF ~ssl_ca_exists
            THEN /\ db_raised' = [db_raised EXCEPT ![t] = "FileNotFoundError"]
                 /\ db_pc' = [db_pc EXCEPT ![t] = "finally"]
                 /\ UNCHANGED db_using
            ELSE IF ~store_up
            THEN /\ db_raised' = [db_raised EXCEPT ![t] = NULL]
                 /\ db_pc' = [db_pc EXCEPT ![t] = "connect_fails"]
                 /\ UNCHANGED db_using
            ELSE /\ db_using' = [db_using EXCEPT ![t] = db_calls + 1]
                 /\ db_raised' = [db_raised EXCEPT ![t] = NULL]
                 /\ db_pc' = [db_pc EXCEPT ![t] = "connecting"]
       ELSE /\ db_raised' = [db_raised EXCEPT ![t] = NULL]
            /\ db_pc' = [db_pc EXCEPT ![t] = "cursor"]
            /\ UNCHANGED db_using
    /\ UNCHANGED <<db_connection, db_open, storeVars, lambdaVars, mainVars, genVars>>

\* mysql.connector.connect(...) raises a mysql Error, which connect() re-raises
\* into the except clause of the method; that clause reads self.connection as
\* it is by now.
FailConnection(t) ==
    /\ db_pc[t] = "connect_fails"
    /\ db_raised' = [db_raised EXCEPT ![t] = ExceptError(db_method[t], db_connection)]
    /\ db_pc' = [db_pc EXCEPT ![t] = "finally"]
    /\ UNCHANGED <<db_connection, db_open, db_calls, db_method, db_using,
                   storeVars, lambdaVars, mainVars, genVars>>

\* self.connection = mysql.connector.connect(...): the new connection is open
\* and replaces whatever the singleton held.
AssignConnection(t) ==
    /\ db_pc[t] = "connecting"
    /\ db_connection' = db_using[t]
    /\ db_open' = db_open \cup {db_using[t]}
    /\ db_using' = [db_using EXCEPT ![t] = 0]
    /\ db_pc' = [db_pc EXCEPT ![t] = "cursor"]
    /\ UNCHANGED <<db_calls, db_method, db_raised,
                   storeVars, lambdaVars, mainVars, genVars>>

\* cursor = self.connection.cursor(): a cursor of whatever connection the
\* singleton holds now; a closed connection raises a mysql Error.
Cursor(t) ==
    /\ db_pc[t] = "cursor"
    /\ IF db_connection \notin db_open
       THEN /\ db_raised' = [db_raised EXCEPT ![t] =
                                 ExceptError(db_method[t], db_connection)]
            /\ db_pc' = [db_pc EXCEPT ![t] = "finally"]
            /\ UNCHANGED db_using
       ELSE /\ db_using' = [db_using EXCEPT ![t] = db_connection]
            /\ db_pc' = [db_pc EXCEPT ![t] = "execute"]
            /\ UNCHANGED db_raised
    /\ UNCHANGED <<db_connection, db_open, db_calls, db_method,
                   storeVars, lambdaVars, mainVars, genVars>>

\* cursor.execute(...), and for execute_query fetchall(), on the connection
\* the cursor belongs to: a mysql Error when the statement fails or that
\* connection has been closed.  execute_update and initialize_tables go on
\* to their commit.
Execute(t, statement_ok) ==
    /\ db_pc[t] = "execute"
    /\ IF db_using[t] \in db_open /\ statement_ok
       THEN /\ db_pc' = [db_pc EXCEPT ![t] =
                   IF db_method[t] = "execute_query" THEN "finally" ELSE "commit"]
            /\ UNCHANGED db_raised
       ELSE /\ db_raised' = [db_raised EXCEPT ![t] =
                                 ExceptError(db_method[t], db_connection)]
            /\ db_pc' = [db_pc EXCEPT ![t] = "finally"]
    /\ UNCHANGED <<db_connection, db_open, db_calls, db_method, db_using,
                   storeVars, lambdaVars, mainVars, genVars>>

\* self.connection.commit(): the commit of whatever connection the singleton
\* holds now, which raises a mysql Error when that connection is closed.
Commit(t) ==
    /\ db_pc[t] = "commit"
    /\ db_raised' = [db_raised EXCEPT ![t] =
           IF db_connection \in db_open THEN NULL
           ELSE ExceptError(db_method[t], db_connection)]
    /\ db_pc' = [db_pc EXCEPT ![t] = "finally"]
    /\ UNCHANGED <<db_connection, db_open, db_calls, db_method, db_using,
                   storeVars, lambdaVars, mainVars, genVars>>

\* finally: self.disconnect(), up to its test "self.connection and
\* self.connection.is_connected()" of whatever connection the singleton holds
\* now; is_connected() asks the server, and nothing locks the singleton from
\* here to the end of the method.
Disconnect(t) ==
    /\ db_pc[t] = "finally"
    /\ db_pc' = [db_pc EXCEPT ![t] =
           IF NotConnected(db_connection, db_open) THEN "skip_close" ELSE "close"]
    /\ UNCHANGED <<db_connection, db_open, db_calls, db_method, db_using, db_raised,
                   storeVars, lambdaVars, mainVars, genVars>>

\* self.connection.close() after the test said yes: it closes the connection
\* the singleton holds by now; then the method returns or raises.
CloseConnection(t) ==
    /\ db_pc[t] = "close"
    /\ db_open' = Close(db_connection, db_open)
    /\ db_using' = [db_using EXCEPT ![t] = 0]
    /\ db_pc' = [db_pc EXCEPT ![t] = "idle"]
    /\ UNCHANGED <<db_connection, db_calls, db_method, db_raised,
                   storeVars, lambdaVars, mainVars, genVars>>

\* The test said no: disconnect() closes nothing, whatever the singleton
\* holds by now, and the method returns or raises.
SkipClose(t) ==
    /\ db_pc[t] = "skip_close"
    /\ db_using' = [db_using EXCEPT ![t] = 0]
    /\ db_pc' = [db_pc EXCEPT ![t] = "idle"]
    /\ UNCHANGED <<db_connection, db_open, db_calls, db_method, db_raised,
                   storeVars, lambdaVars, mainVars, genVars>>

\* db = Database(): no connection yet.
InitDb ==
    /\ db_connection = 0
    /\ db_open = {}
    /\ db_calls = 0
    /\ db_pc = [t \in Callers |-> "idle"]
    /\ db_method = [t \in Callers |-> NULL]
    /\ db_using = [t \in Callers |-> 0]
    /\ db_raised = [t \in Callers |-> NULL]

\* --------------------------- genericdbservice: lambda_function.py and the DAO
\* Number of events the handler is sent.
MaxEvents == 2
\* Characters of a table name: a letter, a decimal digit, the underscore, the
\* hyphen, and U+00BD, the fraction one half.
Characters == {"t", "1", "_", "-", "U+00BD"}
\* str.isalnum(): true of letters, of decimal digits and of every other
\* character with a numeric value, U+00BD among them.
IsAlnum(c) == c \in {"t", "1", "U+00BD"}

\* Values of event.get('table_name'): None when the key is missing, a number,
\* or a string as the sequence of its characters.
NoneValue == [type |-> "NoneType", chars |-> << >>]
NumberValue == [type |-> "int", chars |-> << >>]
Str(chars) == [type |-> "str", chars |-> chars]
\* The name of the one table the store holds.
StoredTable == <<"t", "1">>
TableNames ==
    {NoneValue, NumberValue}
    \cup {Str(chars) : chars \in {<< >>, StoredTable, <<"t">>, <<"_">>, <<"t", "-">>,
                                  <<"U+00BD">>}}
\* bool(value): None and the empty string are falsy, the number is not 0.
Truthy(value) == value.type = "int" \/ (value.type = "str" /\ value.chars # << >>)

validate_table_name(table_name) ==
    IF ~Truthy(table_name) \/ table_name.type # "str" THEN FALSE
    ELSE \A i \in DOMAIN table_name.chars :
            IsAlnum(table_name.chars[i]) \/ table_name.chars[i] = "_"

RECURSIVE Concat(_)
\* The string of a sequence of characters.
Concat(chars) == IF chars = << >> THEN "" ELSE Head(chars) \o Concat(Tail(chars))

\* A dictionary of the event is the sequence of its items; a key is the
\* sequence of tokens the store's lexer reads in it, "--" opening a comment
\* that runs to the end of the statement.  The second data dictionary has the
\* key "balance = 0 -- ".
DataDicts ==
    {<< >>,
     <<[key |-> <<"balance">>, value |-> "0"]>>,
     <<[key |-> <<"balance", "=", "0", "--">>, value |-> "1"]>>}
ConditionDicts == {<< >>, <<[key |-> <<"id">>, value |-> "1"]>>}
Events ==
    [action : {"read", "create", "update", "delete", "DELETE", "list_tables", "drop"},
     table_name : TableNames,
     data : Optional(DataDicts),
     conditions : Optional(ConditionDicts)]
\* event.get(key, {})
Get(optional) == IF optional = {} THEN << >> ELSE CHOOSE dict \in optional : TRUE

RECURSIVE Join(_, _)
\* separator.join([f"{k} = %s" for k in dict.keys()]), as tokens
Join(dict, separator) ==
    IF dict = << >> THEN << >>
    ELSE Head(dict).key \o <<"=", "%s">>
         \o (IF Len(dict) > 1 THEN <<separator>> \o Join(Tail(dict), separator)
             ELSE << >>)
\* list(dict.values())
ListValues(dict) == [i \in DOMAIN dict |-> dict[i].value]

RECURSIVE Substitute(_, _)
\* cursor.execute(query, params): every %s of the statement, a commented one
\* too, is replaced by the next parameter.
Substitute(query, params) ==
    IF query = << >> THEN << >>
    ELSE IF Head(query) = "%s" /\ params # << >>
    THEN <<Head(params)>> \o Substitute(Tail(query), Tail(params))
    ELSE <<Head(query)>> \o Substitute(Tail(query), params)

\* The statement the store parses: what stands before the first comment.
StripComment(statement) ==
    LET opens == {i \in DOMAIN statement : statement[i] = "--"}
    IN  IF opens = {} THEN statement
        ELSE SubSeq(statement, 1, (CHOOSE i \in opens : \A j \in opens : i <= j) - 1)

Columns == {"id", "balance"}
\* WHERE column = value, or no WHERE clause: the rows the statement is about.
Where(table, clause) ==
    IF clause = << >> THEN table
    ELSE {r \in table : r[clause[2]] = clause[4]}
IsWhere(clause) ==
    \/ clause = << >>
    \/ /\ Len(clause) = 4
       /\ clause[1] = "WHERE" /\ clause[2] \in Columns /\ clause[3] = "="

\* The store on one statement: a statement that does not parse, or names an
\* unknown table or column, is an error and changes nothing.
StoreExecute(table, statement, lastrowid) ==
    LET s == StripComment(statement)
        n == Len(s)
        name == Concat(StoredTable)
        Failed == [error |-> TRUE, rows |-> table, result |-> {}]
    IN  IF n >= 4 /\ SubSeq(s, 1, 3) = <<"SELECT", "*", "FROM">> /\ s[4] = name
           /\ IsWhere(SubSeq(s, 5, n))
        THEN [error |-> FALSE, rows |-> table, result |-> Where(table, SubSeq(s, 5, n))]
        ELSE IF n = 10 /\ SubSeq(s, 1, 2) = <<"INSERT", "INTO">> /\ s[3] = name
                /\ s[4] = "(" /\ s[5] = "balance" /\ SubSeq(s, 6, 8) = <<")", "VALUES", "(">>
                /\ s[10] = ")"
        THEN [error |-> FALSE,
              rows |-> table \cup {[id |-> lastrowid, balance |-> s[9]]},
              result |-> {}]
        ELSE IF n >= 6 /\ s[1] = "UPDATE" /\ s[2] = name /\ s[3] = "SET"
                /\ s[4] \in Columns /\ s[5] = "=" /\ IsWhere(SubSeq(s, 7, n))
        THEN [error |-> FALSE,
              rows |-> {IF r \in Where(table, SubSeq(s, 7, n))
                        THEN [r EXCEPT ![s[4]] = s[6]] ELSE r : r \in table},
              result |-> {}]
        ELSE IF n >= 3 /\ SubSeq(s, 1, 2) = <<"DELETE", "FROM">> /\ s[3] = name
                /\ IsWhere(SubSeq(s, 4, n))
        THEN [error |-> FALSE, rows |-> table \ Where(table, SubSeq(s, 4, n)),
              result |-> {}]
        ELSE Failed

\* The DAO's methods: the statement each one builds, and the store on it.  A
\* statement the store rejects is rolled back and raised.
DaoCreate(table, table_name, data, lastrowid) ==
    StoreExecute(table,
        Substitute(<<"INSERT", "INTO", Concat(table_name), "(">> \o
                   (IF data = << >> THEN << >> ELSE Head(data).key) \o
                   <<")", "VALUES", "(", "%s", ")">>, ListValues(data)),
        lastrowid)
DaoRead(table, table_name, conditions) ==
    StoreExecute(table,
        Substitute(<<"SELECT", "*", "FROM", Concat(table_name)>> \o
                   (IF conditions # << >>
                    THEN <<"WHERE">> \o Join(conditions, "AND") ELSE << >>),
                   ListValues(conditions)),
        NULL)
DaoUpdate(table, table_name, data, conditions) ==
    StoreExecute(table,
        Substitute(<<"UPDATE", Concat(table_name), "SET">> \o Join(data, ",") \o
                   <<"WHERE">> \o Join(conditions, "AND"),
                   ListValues(data) \o ListValues(conditions)),
        NULL)
DaoDelete(table, table_name, conditions) ==
    StoreExecute(table,
        Substitute(<<"DELETE", "FROM", Concat(table_name), "WHERE">> \o
                   Join(conditions, "AND"), ListValues(conditions)),
        NULL)

\* What the handler returns, with the DAO calls it made.
Response(event, statusCode, dao_calls) ==
    [event |-> event, statusCode |-> statusCode, dao_calls |-> dao_calls]
NoEvent ==
    [action |-> NULL, table_name |-> NoneValue, data |-> {}, conditions |-> {}]
\* The try block of lambda_handler once the DAO is connected: the response
\* and the rows the table is left with.  list_tables calls dao.execute_query,
\* a method the DAO does not have: the AttributeError is caught and answered
\* with 500.
Handle(event, table, lastrowid) ==
    LET action == Lower(event.action)
        table_name == event.table_name
        data == Get(event.data)
        conditions == Get(event.conditions)
        Done(method, outcome, statusCode) ==
            [response |-> Response(event, IF outcome.error THEN 500 ELSE statusCode,
                                   <<[method |-> method, table_name |-> table_name]>>),
             rows |-> outcome.rows]
        Refused(statusCode) ==
            [response |-> Response(event, statusCode, << >>), rows |-> table]
    IN  IF action = "list_tables" THEN Refused(500)
        ELSE IF action \in {"read", "create", "update", "delete"}
                /\ ~validate_table_name(table_name)
        THEN Refused(400)
        ELSE IF action = "read"
        THEN Done("read", DaoRead(table, table_name.chars, conditions), 200)
        ELSE IF action = "create"
        THEN IF data = << >> THEN Refused(400)
             ELSE Done("create", DaoCreate(table, table_name.chars, data, lastrowid), 201)
        ELSE IF action = "update"
        THEN IF data = << >> THEN Refused(400)
             ELSE Done("update", DaoUpdate(table, table_name.chars, data, conditions), 200)
        ELSE IF action = "delete"
        THEN Done("delete", DaoDelete(table, table_name.chars, conditions), 200)
        ELSE Refused(400)

\* lambda_handler on an event that is a dictionary: the DAO is made, and
\* connects, before anything of the event is looked at; a connection that
\* fails is the handler's error 500.
lambda_handler(event, store_up) ==
    /\ handled < MaxEvents
    /\ IF ~store_up
       THEN /\ reply' = Response(event, 500, << >>)
            /\ UNCHANGED rows
       ELSE LET handling == Handle(event, rows, "n" \o ToString(handled + 1))
            IN  /\ reply' = handling.response
                /\ rows' = handling.rows
    /\ handled' = handled + 1
    /\ UNCHANGED <<storeVars, lambdaVars, mainVars, dbVars>>

InitGeneric ==
    /\ rows = {[id |-> "1", balance |-> "1"], [id |-> "2", balance |-> "1"]}
    /\ handled = 0
    /\ reply = Response(NoEvent, 0, << >>)

GenericNext == \E event \in Events, store_up \in BOOLEAN : lambda_handler(event, store_up)

InitMain ==
    /\ beneficiaries_db = << >>
    /\ payments_db = << >>
    /\ calls = 0
    /\ last = NoCall

Init == InitStore /\ InitLambda /\ InitMain /\ InitDb /\ InitGeneric

Next ==
    \/ \E i \in Procs : ValidateRequest(i)
    \/ \E i \in Procs : VerifyBeneficiary(i)
    \/ \E i \in Procs : VerifySourceAccount(i)
    \/ \E i \in Procs : ExecuteTransaction(i)
    \/ \E a \in AccountIds : DaoDeleteAccount(a)

Spec == Init /\ [][Next]_vars

\* initiate_payment invocations whose requests can name their payment_id, on
\* a store where the generic database service creates payment rows.
SuppliedIdNext ==
    \/ \E payment \in CreatedPayments : DaoCreatePayment(payment)
    \/ \E i \in Procs : ValidateRequestFrom(i, RequestDataWithId)
    \/ \E i \in Procs : VerifyBeneficiary(i)
    \/ \E i \in Procs : VerifySourceAccount(i)
    \/ \E i \in Procs : ExecuteTransaction(i)

SuppliedIdSpec == Init /\ [][SuppliedIdNext]_vars

\* The Lambda tools create_beneficiary and initiate_payment, called at
\* overlapping times.
BeneficiaryNext ==
    \/ \E request_data \in BeneficiaryRequestData :
          create_beneficiary(request_data)
    \/ \E i \in Procs : ValidateRequest(i)
    \/ \E i \in Procs : VerifyBeneficiary(i)
    \/ \E i \in Procs : VerifySourceAccount(i)
    \/ \E i \in Procs : ExecuteTransaction(i)

BeneficiarySpec == Init /\ [][BeneficiaryNext]_vars

GenericSpec == Init /\ [][GenericNext]_vars

MainNext ==
    \/ \E name \in BeneficiaryNames, bank_code \in BankCodes :
          add_beneficiary(name, "0001", bank_code)
    \/ \E beneficiary_id \in CallIds("ben") : delete_beneficiary(beneficiary_id)
    \/ \E amount \in 0..MaxAmount, currency \in MainCurrencies,
          beneficiary_id \in CallIds("ben") :
          initiate_payment(amount, currency, beneficiary_id)
    \/ \E amount \in 0..MaxAmount, currency \in MainCurrencies,
          beneficiary_id \in CallIds("ben"), scheduled_date \in ScheduledDates :
          schedule_payment(amount, currency, beneficiary_id, scheduled_date)
    \/ \E payment_id \in CallIds("pay") : cancel_payment(payment_id)
    \/ \E min_balance \in BalanceBounds, max_balance \in BalanceBounds,
          store_up \in BOOLEAN :
          list_accounts(min_balance, max_balance, store_up)
    \/ \E balance \in AccountBalances, store_up \in BOOLEAN :
          add_account("SAVINGS", balance, "USD", store_up)
    \/ \E account_list \in AccountLists, store_up \in BOOLEAN :
          add_multiple_accounts(account_list, store_up)
    \/ \E account_id \in AccountIds, store_up \in BOOLEAN :
          get_account_balance(account_id, store_up)
    \/ \E account_id \in {NULL} \cup AccountIds, balance \in AccountBalances :
          create_account(account_id, balance)

MainSpec == Init /\ [][MainNext]_vars

\* The payment requests of ToolsSpec: for the whole balance of a stored
\* account, and for more than it.
ToolRequestData ==
    [payment_id : {NULL}, amount : {InitBalance, InitBalance + 1},
     currency : {"USD"}, beneficiary_id : {"b1"}, source_account_id : {"a1"},
     type : PaymentTypes]
\* The invocation that is the initiate_payment call of ToolsSpec.
ToolCaller == CHOOSE i \in Procs : \A j \in Procs : i <= j

\* Every tool that reads or writes the accounts table or stands next to one
\* that does: the tools of main.py, called one at a time, and the Lambda tools
\* create_account, create_beneficiary and initiate_payment (one invocation,
\* its store calls interleaved with the other tools' calls).
ToolsNext ==
    \/ \E name \in BeneficiaryNames, bank_code \in BankCodes :
          add_beneficiary(name, "0001", bank_code)
    \/ delete_beneficiary("ben1")
    \/ \E beneficiary_id \in {"ben1"} : initiate_payment(1, "USD", beneficiary_id)
    \/ \E scheduled_date \in ScheduledDates :
          schedule_payment(1, "USD", "ben1", scheduled_date)
    \/ \E payment_id \in {"pay2"} : cancel_payment(payment_id)
    \/ \E store_up \in BOOLEAN : list_accounts({}, {}, store_up)
    \/ \E balance \in AccountBalances, store_up \in BOOLEAN :
          add_account("SAVINGS", balance, "USD", store_up)
    \/ \E account_list \in AccountLists, store_up \in BOOLEAN :
          add_multiple_accounts(account_list, store_up)
    \/ \E store_up \in BOOLEAN : get_account_balance("a1", store_up)
    \/ \E account_id \in {NULL, "a1"} : create_account(account_id, 0)
    \/ \E request_data \in BeneficiaryRequestData : create_beneficiary(request_data)
    \/ ValidateRequestFrom(ToolCaller, ToolRequestData)
    \/ VerifyBeneficiary(ToolCaller)
    \/ VerifySourceAccount(ToolCaller)
    \/ ExecuteTransaction(ToolCaller)

ToolsSpec == Init /\ [][ToolsNext]_vars

\* The payment tools up to MaxStoredCalls calls, and the queries at any time.
SearchNext ==
    \/ /\ calls < MaxStoredCalls
       /\ \/ \E name \in BeneficiaryNames, bank_code \in BankCodes :
                add_beneficiary(name, "0001", bank_code)
          \/ \E amount \in 0..MaxAmount, currency \in MainCurrencies,
                beneficiary_id \in CallIds("ben") :
                initiate_payment(amount, currency, beneficiary_id)
          \/ \E amount \in 0..MaxAmount, currency \in MainCurrencies,
                beneficiary_id \in CallIds("ben"), scheduled_date \in ScheduledDates :
                schedule_payment(amount, currency, beneficiary_id, scheduled_date)
          \/ \E payment_id \in CallIds("pay") : cancel_payment(payment_id)
    \/ \E f \in SearchArgs : search_payment_history(f)
    \/ \E start_date \in Optional(SearchDates), end_date \in Optional(SearchDates),
          compensated \in BOOLEAN :
          get_payment_statistics(start_date, end_date, compensated)
    \/ \E name \in Optional(BeneficiaryQueries), bank_code \in Optional({""} \cup BankCodes) :
          search_beneficiaries(name, bank_code)
    \/ \E min_balance \in BalanceBounds, max_balance \in BalanceBounds,
          store_up \in BOOLEAN :
          list_accounts(min_balance, max_balance, store_up)

SearchSpec == Init /\ [][SearchNext]_vars

\* ---- get_payment_statistics on a filled store
\* The amounts of the stored payments, in tenths of a currency unit: 0.1, 0.2
\* and 0.3.
StatAmounts == {1, 2, 3}
\* The payment the call with index k can have stored for beneficiary "ben1":
\* an immediate one in either currency or a scheduled one in USD.
PaymentsOfCall(k) ==
    {ImmediatePayment(NewId("pay", k), amount, currency, "ben1", k) :
        amount \in StatAmounts, currency \in MainCurrencies}
    \cup
    {ScheduledPayment(NewId("pay", k), amount, "USD", "ben1", scheduled_date, k) :
        amount \in StatAmounts, scheduled_date \in ScheduledDates}
RECURSIVE StoredAfter(_)
\* What payments_db can hold after add_beneficiary (call 1, which drew "ben1")
\* and n successful initiate_payment or schedule_payment calls (calls 2..n+1).
StoredAfter(n) ==
    IF n = 0 THEN {<< >>}
    ELSE {Put(stored, NewId("pay", n + 1), payment) :
             stored \in StoredAfter(n - 1), payment \in PaymentsOfCall(n + 1)}

\* A server whose store was filled by add_beneficiary and up to MaxStoredCalls
\* payment calls; calls counts the calls made from here on.
InitStatistics ==
    /\ beneficiaries_db =
          Put(<< >>, "ben1", [beneficiary_id |-> "ben1", name |-> "Ann",
                              account_number |-> "0001", bank_code |-> "BC1"])
    /\ payments_db \in UNION {StoredAfter(n) : n \in 0..MaxStoredCalls}
    /\ calls = 0
    /\ last = NoCall

StatsNext ==
    \E start_date \in Optional(SearchDates), end_date \in Optional(SearchDates),
       compensated \in BOOLEAN :
       get_payment_statistics(start_date, end_date, compensated)

StatsInit == InitStore /\ InitLambda /\ InitStatistics /\ InitDb /\ InitGeneric

StatsSpec == StatsInit /\ [][StatsNext]_vars

DbNext ==
    \/ \E t \in Callers, method \in DbMethods, ssl_ca_exists \in BOOLEAN,
          store_up \in BOOLEAN :
          Connect(t, method, ssl_ca_exists, store_up)
    \/ \E t \in Callers : AssignConnection(t)
    \/ \E t \in Callers : FailConnection(t)
    \/ \E t \in Callers : Cursor(t)
    \/ \E t \in Callers, statement_ok \in BOOLEAN : Execute(t, statement_ok)
    \/ \E t \in Callers : Commit(t)
    \/ \E t \in Callers : Disconnect(t)
    \/ \E t \in Callers : CloseConnection(t)
    \/ \E t \in Callers : SkipClose(t)

DbSpec == Init /\ [][DbNext]_vars

\* No method call of the singleton is running.
NoCallRunning == \A t \in Callers : db_pc[t] = "idle"

\* The singleton as the tools use it: a process serves one invocation at a
\* time and a tool calls the methods one after the other, so a call starts
\* only when no other is running.
SerialDbNext ==
    \/ \E t \in Callers, method \in DbMethods, ssl_ca_exists \in BOOLEAN,
          store_up \in BOOLEAN :
          NoCallRunning /\ Connect(t, method, ssl_ca_exists, store_up)
    \/ \E t \in Callers : AssignConnection(t)
    \/ \E t \in Callers : FailConnection(t)
    \/ \E t \in Callers : Cursor(t)
    \/ \E t \in Callers, statement_ok \in BOOLEAN : Execute(t, statement_ok)
    \/ \E t \in Callers : Commit(t)
    \/ \E t \in Callers : Disconnect(t)
    \/ \E t \in Callers : CloseConnection(t)
    \/ \E t \in Callers : SkipClose(t)

SerialDbSpec == Init /\ [][SerialDbNext]_vars

\* ------------------------------------------------------------------ claims
\* The payment row invocation i inserts under the uuid4 it drew.
UuidOf(i) == "uuid" \o ToString(i)
\* Invocation i takes a step.
Steps(i) == pc'[i] # pc[i]
\* Sum of the amounts of the completed payments debited from account a.
CompletedDebits(a) ==
    SumOver([p \in DOMAIN payments |-> payments[p].amount],
            {p \in DOMAIN payments :
                /\ payments[p].source_account_id = a
                /\ payments[p].status = "completed"})

\* An invocation whose call of db.execute_transaction raised.
CommitRaised(i) == pc[i] = "done" /\ response[i].kind = "AttributeError"
\* The rows the store holds at the start are all it holds.
StoreAsAtStart ==
    /\ accounts = [a \in {"a1", "a2"} |-> [balance |-> InitBalance]]
    /\ payments = << >>

\* C1: in every reachable state, after any interleaving of initiate_payment
\* calls, every account's balance is >= 0.
C1_BalanceNeverNegative ==
    \A a \in DOMAIN accounts : accounts[a].balance >= 0

\* C1 witness: one invocation has run its commit step and another, past its
\* funds check, is about to pay the whole balance of its account.
C1_Witness ==
    \E i, j \in Procs :
        /\ CommitRaised(i)
        /\ pc[j] = "execute_transaction"
        /\ request[j].source_account_id \in DOMAIN accounts
        /\ request[j].amount = accounts[request[j].source_account_id].balance

\* C2: of two initiate_payment calls against the same source account that
\* are both past their funds check, each with an amount within the balance
\* but with a combined amount above it, exactly one commits: the first to run
\* its commit succeeds and debits its amount; a commit that finds less than
\* its amount is refused for insufficient funds and changes nothing; and the
\* two never both succeed.
C2_NoDoubleSpend ==
    [][\A i, j \in Procs :
          LET a == request[i].source_account_id
          IN  /\ (/\ i # j
                  /\ Steps(i)
                  /\ pc[i] = "execute_transaction"
                  /\ pc[j] = "execute_transaction"
                  /\ request[j].source_account_id = a
                  /\ a \in DOMAIN accounts
                  /\ request[i].amount <= accounts[a].balance
                  /\ request[j].amount <= accounts[a].balance
                  /\ request[i].amount + request[j].amount > accounts[a].balance)
                 => /\ response'[i].status = "success"
                    /\ accounts'[a].balance = accounts[a].balance - request[i].amount
              /\ (/\ Steps(i)
                  /\ pc[i] = "execute_transaction"
                  /\ a \in DOMAIN accounts
                  /\ request[i].amount > accounts[a].balance)
                 => /\ response'[i].kind = "InsufficientFunds"
                    /\ UNCHANGED <<accounts, payments>>
              /\ (/\ i # j
                  /\ response'[i].status = "success"
                  /\ response'[j].status = "success"
                  /\ response'[i].payment.source_account_id
                        = response'[j].payment.source_account_id
                  /\ response'[i].payment.amount <= InitBalance
                  /\ response'[j].payment.amount <= InitBalance)
                 => response'[i].payment.amount + response'[j].payment.amount
                        <= InitBalance]_vars

\* C3: the commit is atomic: in the commit step of an invocation the source
\* account is debited by the amount if and only if the payment row of the
\* invocation is persisted, and nothing else of the accounts changes.
C3_DebitIffPaymentRow ==
    [][\A i \in Procs :
          (Steps(i) /\ pc[i] = "execute_transaction")
          => LET a == request[i].source_account_id
                 debited == /\ a \in DOMAIN accounts
                            /\ accounts' = [accounts EXCEPT ![a].balance =
                                               @ - request[i].amount]
                 persisted == /\ UuidOf(i) \in DOMAIN payments'
                              /\ UuidOf(i) \notin DOMAIN payments
             IN  /\ debited <=> persisted
                 /\ ~debited => accounts' = accounts
                 /\ ~persisted => payments' = payments]_vars

\* C3 witness: an invocation ran its commit step, it failed, and the store is
\* as it was: no debit and no row.
C3_Witness ==
    \E i \in Procs :
        /\ CommitRaised(i)
        /\ UuidOf(i) \notin DOMAIN payments
        /\ StoreAsAtStart

\* C4: every stored account's balance equals its initial balance minus the
\* sum of the amounts of the completed payments whose source it is.
C4_BalanceEquation ==
    \A a \in DOMAIN accounts :
        accounts[a].balance = InitBalance - CompletedDebits(a)

\* C4 witness: two invocations have run their commit steps.
C4_Witness ==
    \E i, j \in Procs : i # j /\ CommitRaised(i) /\ CommitRaised(j)

\* The request of invocation i asks for more than its source account holds.
Overdraft(i) ==
    /\ request[i].source_account_id \in DOMAIN accounts
    /\ request[i].amount > accounts[request[i].source_account_id].balance

\* C5 as stated: an initiate_payment whose amount is greater than the source
\* account's current balance always fails with the insufficient-funds error
\* (read generously: or with the store's own error) and leaves every account
\* balance and the payment rows unchanged.
C5_OverdraftAlwaysInsufficientFunds ==
    [][\A i \in Procs :
          (Overdraft(i) /\ pc[i] # "done" /\ pc'[i] = "done")
          => /\ response'[i].kind \in {"InsufficientFunds", "StoreError"}
             /\ UNCHANGED <<accounts, payments>>]_vars

\* C5 amended: an initiate_payment with a valid request whose amount is
\* greater than the source account's current balance always fails: with the
\* beneficiary-not-found error when its beneficiary is not stored, and with
\* the insufficient-funds error otherwise (a lookup the store does not answer
\* raises the store's own error instead).  It never gets to its commit, and
\* it leaves every account balance and the payment rows unchanged.
C5_OverdraftFails ==
    [][\A i \in Procs :
          (Overdraft(i) /\ Steps(i))
          => /\ pc[i] \in {"verify_beneficiary", "verify_source_account"}
             /\ pc[i] = "verify_beneficiary"
                   => IF request[i].beneficiary_id \in beneficiaries
                      THEN \/ pc'[i] = "verify_source_account"
                           \/ pc'[i] = "done" /\ response'[i].kind = "StoreError"
                      ELSE /\ pc'[i] = "done"
                           /\ response'[i].kind \in {"BeneficiaryNotFound", "StoreError"}
             /\ pc[i] = "verify_source_account"
                   => /\ pc'[i] = "done"
                      /\ response'[i].kind \in {"InsufficientFunds", "StoreError"}
             /\ pc'[i] = "done" => response'[i].status = "error"
             /\ result'[i] = NoResult
             /\ UNCHANGED <<accounts, payments>>]_vars

\* C5 witness: an invocation asking for more than the balance was refused
\* for insufficient funds, and another one asking for more than the balance
\* names a beneficiary that is not stored.
C5_Witness ==
    \E i, j \in Procs :
        /\ response[i].kind = "InsufficientFunds"
        /\ pc[j] = "verify_beneficiary"
        /\ Overdraft(j)
        /\ request[j].beneficiary_id \notin beneficiaries

\* C6: an initiate_payment whose beneficiary_id or source_account_id is not in
\* the store when it is looked up fails at that lookup, before any write: no
\* account balance changes and no payment row is added.
C6_MissingReferenceFailsBeforeWrite ==
    [][\A i \in Procs :
          (/\ Steps(i)
           /\ \/ /\ pc[i] = "verify_beneficiary"
                 /\ request[i].beneficiary_id \notin beneficiaries
              \/ /\ pc[i] = "verify_source_account"
                 /\ request[i].source_account_id \notin DOMAIN accounts)
          => /\ pc'[i] = "done"
             /\ response'[i].status = "error"
             /\ result'[i] = NoResult
             /\ UuidOf(i) \notin DOMAIN payments'
             /\ UNCHANGED <<accounts, payments>>]_vars

\* C6 witness: one invocation failed on its beneficiary, another on its account.
C6_Witness ==
    \E i, j \in Procs :
        /\ response[i].kind = "BeneficiaryNotFound"
        /\ response[j].kind = "AccountNotFound"

\* C8: every successful initiate_payment persists a payment whose status is
\* COMPLETED and whose completed_at is set; none is left PENDING.
C8_ImmediatePaymentCompleted ==
    \A p \in DOMAIN payments_db :
        payments_db[p].type = "IMMEDIATE"
        => /\ payments_db[p].status = "COMPLETED"
           /\ payments_db[p].completed_at # NULL

\* The step is a call of the tool.
Calls(tool) == calls' = calls + 1 /\ last'.tool = tool

\* C9: cancel_payment succeeds only on a payment whose status is SCHEDULED and
\* sets it to CANCELLED; on any other status it fails with the invalid-state
\* error and changes nothing, so cancelling a cancelled payment fails and
\* leaves it CANCELLED.
C9_CancelOnlyScheduled ==
    [][Calls("cancel_payment") =>
          LET payment_id == last'.id
          IN  IF payment_id \notin DOMAIN payments_db
              THEN /\ last'.status = "error"
                   /\ last'.message = "Payment not found"
                   /\ payments_db' = payments_db
              ELSE IF payments_db[payment_id].status = "SCHEDULED"
              THEN /\ last'.status = "CANCELLED"
                   /\ payments_db' =
                          [payments_db EXCEPT ![payment_id].status = "CANCELLED"]
              ELSE /\ last'.status = "error"
                   /\ last'.message = "Only scheduled payments can be cancelled"
                   /\ payments_db' = payments_db]_vars

\* C9 witness: a cancelled payment was cancelled again, and refused.
C9_Witness ==
    /\ last.tool = "cancel_payment"
    /\ last.message = "Only scheduled payments can be cancelled"
    /\ last.id \in DOMAIN payments_db
    /\ payments_db[last.id].status = "CANCELLED"

\* C10: schedule_payment persists a payment with status SCHEDULED and its
\* scheduled_date set and changes no account balance; cancel_payment of a
\* scheduled payment sets its status to CANCELLED and changes no account
\* balance either.
C10_ScheduleThenCancelKeepsBalances ==
    [][/\ Calls("schedule_payment") =>
            /\ accounts' = accounts
            /\ last'.status = "ok" =>
                  /\ last'.id \notin DOMAIN payments_db
                  /\ last'.id \in DOMAIN payments_db'
                  /\ payments_db'[last'.id] = last'.payment
                  /\ payments_db'[last'.id].status = "SCHEDULED"
                  /\ payments_db'[last'.id].scheduled_date
                         \in {IsoFormat(d) : d \in ScheduledDates}
                  /\ \A p \in DOMAIN payments_db : payments_db'[p] = payments_db[p]
       /\ (/\ Calls("cancel_payment")
           /\ last'.id \in DOMAIN payments_db
           /\ payments_db[last'.id].status = "SCHEDULED") =>
            /\ accounts' = accounts
            /\ payments_db'[last'.id].status = "CANCELLED"]_vars

\* C10 witness: a scheduled payment was persisted and then cancelled.
C10_Witness ==
    /\ last.tool = "cancel_payment"
    /\ last.status = "CANCELLED"
    /\ payments_db[last.id].type = "SCHEDULED"
    /\ payments_db[last.id].status = "CANCELLED"
    /\ \A a \in DOMAIN accounts : accounts[a].balance = InitBalance

\* C11: after any sequence of add_beneficiary, delete_beneficiary,
\* initiate_payment and schedule_payment, the beneficiary_id of every persisted
\* payment is the id of a beneficiary that currently exists.
C11_PaymentBeneficiaryExists ==
    \A p \in DOMAIN payments_db :
        payments_db[p].beneficiary_id \in DOMAIN beneficiaries_db

\* C12: every persisted payment has an amount > 0: initiate_payment and
\* schedule_payment write nothing when the amount is not positive.
C12_PersistedAmountPositive ==
    \A p \in DOMAIN payments_db : payments_db[p].amount > 0

\* C13: one initiate_payment invocation debits its source account at most once
\* and inserts at most one payment row, both in its single commit step; an
\* invocation that reports failure has debited nothing and inserted nothing,
\* and a finished invocation never acts again.
C13_AtMostOneDebitAndRow ==
    [][\A i \in Procs :
          /\ Steps(i) =>
                IF pc[i] = "execute_transaction" /\ response'[i].status = "success"
                THEN LET a == request[i].source_account_id
                     IN  /\ DOMAIN accounts' = DOMAIN accounts
                         /\ \A b \in DOMAIN accounts :
                                accounts'[b].balance =
                                    IF b = a THEN accounts[b].balance - request[i].amount
                                    ELSE accounts[b].balance
                         /\ UuidOf(i) \notin DOMAIN payments
                         /\ DOMAIN payments' = DOMAIN payments \cup {UuidOf(i)}
                         /\ \A p \in DOMAIN payments : payments'[p] = payments[p]
                ELSE /\ UNCHANGED <<accounts, payments>>
                     /\ pc'[i] = "done" => response'[i].status = "error"
          /\ pc[i] = "done" => /\ pc'[i] = "done"
                               /\ response'[i] = response[i]]_vars

\* C13 witness: one invocation failed in its commit step and another at its
\* funds check, and nothing was debited or inserted.
C13_Witness ==
    \E i, j \in Procs :
        /\ CommitRaised(i)
        /\ result[i] = NoResult
        /\ response[j].kind = "InsufficientFunds"
        /\ StoreAsAtStart

\* C14: a tool call that cannot get a store connection returns an error
\* outcome, one that no successful call returns.
C14_NoConnectionReportsError ==
    last.connection = NULL => last.status = "error"

C16_ExistingBalancesKept ==
    [][\A a \in DOMAIN accounts :
          /\ a \in DOMAIN accounts'
          /\ \/ accounts'[a].balance = accounts[a].balance
             \/ \E i \in Procs : /\ pc[i] = "execute_transaction"
                                 /\ response'[i].status = "success"]_vars

\* C16 witness: accounts were added next to the stored ones, a Lambda
\* initiate_payment failed in its commit step, create_account was refused,
\* and the accounts of the start have the balances of the start.
C16_Witness ==
    /\ last.tool = "create_account"
    /\ last.status = "error"
    /\ \E a \in DOMAIN accounts : a \notin AccountIds
    /\ \E i \in Procs : CommitRaised(i)
    /\ \A a \in {"a1", "a2"} :
          a \in DOMAIN accounts /\ accounts[a].balance = InitBalance

\* C17: a payment whose status is COMPLETED, FAILED or CANCELLED keeps that
\* status for ever, and no step gives a stored payment the status SCHEDULED or
\* PENDING unless it had that status already.
C17_TerminalStatusFinal ==
    [][\A p \in DOMAIN payments_db :
          /\ p \in DOMAIN payments_db'
          /\ payments_db[p].status \in {"COMPLETED", "FAILED", "CANCELLED"}
                => payments_db'[p].status = payments_db[p].status
          /\ payments_db'[p].status \in {"SCHEDULED", "PENDING"}
                => payments_db'[p].status = payments_db[p].status]_vars

\* C17 witness: with a cancelled payment stored, a further payment was
\* created.
C17_Witness ==
    /\ last.tool \in {"initiate_payment", "schedule_payment"}
    /\ last.status = "ok"
    /\ \E p \in DOMAIN payments_db :
          /\ p # last.id
          /\ payments_db[p].status = "CANCELLED"

\* C18: the completed_at of a stored payment is set if and only if its status
\* is COMPLETED or FAILED, and once set it is never changed or cleared; of
\* the payments main.py keeps and of the payment rows of the store.
C18_CompletedAtIffFinished ==
    [][/\ \A p \in DOMAIN payments_db' :
             /\ (payments_db'[p].completed_at # NULL)
                   <=> (payments_db'[p].status \in {"COMPLETED", "FAILED"})
             /\ (p \in DOMAIN payments_db /\ payments_db[p].completed_at # NULL)
                   => payments_db'[p].completed_at = payments_db[p].completed_at
       /\ \A p \in DOMAIN payments' :
             /\ (payments'[p].completed_at # NULL)
                   <=> (payments'[p].status \in {"completed", "failed"})
             /\ (p \in DOMAIN payments /\ payments[p].completed_at # NULL)
                   => payments'[p].completed_at = payments[p].completed_at]_vars

\* C18 witness: a payment was cancelled next to a pending one; neither has a
\* completed_at.
C18_Witness ==
    /\ last.tool = "cancel_payment"
    /\ \E p, q \in DOMAIN payments_db :
          /\ payments_db[p].status = "CANCELLED"
          /\ payments_db[p].completed_at = NULL
          /\ payments_db[q].status = "PENDING"
          /\ payments_db[q].completed_at = NULL

\* C19: delete_beneficiary of a stored beneficiary_id removes that beneficiary
\* and no other and reports success; of an id that is not stored (a second
\* delete of the same id included) it reports not-found and leaves the
\* beneficiaries as they are.
C19_DeleteBeneficiaryExactlyOne ==
    [][Calls("delete_beneficiary") =>
          LET beneficiary_id == last'.id
          IN  IF beneficiary_id \in DOMAIN beneficiaries_db
              THEN /\ last'.status = "success"
                   /\ DOMAIN beneficiaries_db'
                          = DOMAIN beneficiaries_db \ {beneficiary_id}
                   /\ \A b \in DOMAIN beneficiaries_db' :
                          beneficiaries_db'[b] = beneficiaries_db[b]
              ELSE /\ last'.status = "error"
                   /\ last'.message = "Beneficiary not found"
                   /\ beneficiaries_db' = beneficiaries_db]_vars

\* C19 witness: a beneficiary that a stored payment names was deleted, and a
\* second delete of it was answered not-found.
C19_Witness ==
    /\ last.tool = "delete_beneficiary"
    /\ last.message = "Beneficiary not found"
    /\ \E p \in DOMAIN payments_db : payments_db[p].beneficiary_id = last.id

\* The payments a list holds.
Range(list) == {list[i] : i \in DOMAIN list}

\* C20: search_payment_history without a limit returns exactly the stored
\* payments that satisfy every filter that was provided (is not None), each
\* once; a filter that was not provided excludes nothing.
C20_SearchReturnsExactlyMatching ==
    [][Calls("search_payment_history") =>
          LET f == last'.filters
          IN  f.limit = {} =>
                /\ Range(last'.payment_rows) =
                      {payments_db[p] : p \in
                          {q \in DOMAIN payments_db :
                              /\ \A d \in f.start_date : payments_db[q].created_at >= d
                              /\ \A d \in f.end_date : payments_db[q].created_at <= d
                              /\ \A m \in f.min_amount : payments_db[q].amount >= m
                              /\ \A m \in f.max_amount : payments_db[q].amount <= m
                              /\ \A c \in f.currency : payments_db[q].currency = c
                              /\ \A c \in f.status : payments_db[q].status = c
                              /\ \A c \in f.payment_type : payments_db[q].type = c
                              /\ \A c \in f.beneficiary_id :
                                    payments_db[q].beneficiary_id = c}}
                /\ Len(last'.payment_rows) = Cardinality(Range(last'.payment_rows))]_vars

\* C21: search_payment_history with a limit returns at most limit payments
\* (none when the limit is 0 or negative), and what it returns is the prefix
\* of the filtered, sorted list.
C21_LimitCapsResult ==
    [][Calls("search_payment_history") =>
          LET f == last'.filters
              returned == last'.payment_rows
              full == SearchResult(payments_db, [f EXCEPT !.limit = {}])
          IN  \A l \in f.limit :
                /\ Len(returned) <= (IF l < 0 THEN 0 ELSE l)
                /\ Len(returned) <= Len(full)
                /\ returned = SubSeq(full, 1, Len(returned))]_vars

\* The tools that only answer a question.
QueryTools ==
    {"search_payment_history", "get_payment_statistics", "search_beneficiaries",
     "list_accounts"}

\* C22: search_payment_history, get_payment_statistics, search_beneficiaries
\* and list_accounts are pure reads: a call of any of them, with any
\* arguments, leaves the stored accounts, beneficiaries and payments (their
\* order and every field of every payment included) as they were.
C22_QueriesArePureReads ==
    [][last'.tool \in QueryTools
          => /\ accounts' = accounts
             /\ beneficiaries_db' = beneficiaries_db
             /\ payments_db' = payments_db]_vars

\* A query was answered from a store holding a beneficiary and two payments,
\* and it returned payments.
C22_Witness ==
    /\ last.tool = "search_payment_history"
    /\ last.filters.status = {"SCHEDULED"}
    /\ Len(last.payment_rows) = 1
    /\ Cardinality(DOMAIN payments_db) = 2
    /\ DOMAIN beneficiaries_db # {}

\* C23: initiate_payment checks the beneficiary, then the source account,
\* then the funds.  A request whose beneficiary is missing fails at the
\* beneficiary lookup with the beneficiary-not-found error, its source
\* account missing or not; a request whose beneficiary is found and whose
\* source account is missing fails with account-not-found, never with
\* insufficient-funds.  (A lookup the store does not answer raises the
\* store's own error.)
C23_ChecksInOrder ==
    [][\A i \in Procs :
          /\ (/\ Steps(i)
              /\ pc[i] = "verify_beneficiary"
              /\ request[i].beneficiary_id \notin beneficiaries)
             => /\ pc'[i] = "done"
                /\ response'[i].kind \in {"BeneficiaryNotFound", "StoreError"}
          /\ (/\ Steps(i)
              /\ pc[i] = "verify_source_account"
              /\ request[i].source_account_id \notin DOMAIN accounts)
             => /\ pc'[i] = "done"
                /\ request[i].beneficiary_id \in beneficiaries
                /\ response'[i].kind \in {"AccountNotFound", "StoreError"}
          /\ (response'[i].kind \in {"AccountNotFound", "InsufficientFunds"}
              /\ response[i] = NoResponse)
             => /\ pc[i] = "verify_source_account"
                /\ request[i].beneficiary_id \in beneficiaries
                /\ response'[i].kind = "InsufficientFunds"
                      => request[i].source_account_id \in DOMAIN accounts]_vars

\* C23 witness: one invocation, its beneficiary found, was refused for its
\* missing source account and another was refused for its beneficiary, with
\* nothing written.
C23_Witness ==
    \E i, j \in Procs :
        /\ response[i].kind = "AccountNotFound"
        /\ response[j].kind = "BeneficiaryNotFound"
        /\ result[i] = NoResult /\ result[j] = NoResult
        /\ payments = << >>
        /\ accounts = [a \in {"a1", "a2"} |-> [balance |-> InitBalance]]

\* C24: initiate_payment with an amount equal to the balance of its source
\* account (beneficiary and account stored) is not refused for its funds,
\* the funds check refusing only when balance < amount; its commit, run
\* while the amount is the balance, succeeds and leaves the balance at 0.
C24_WholeBalancePaymentLeavesZero ==
    [][\A i \in Procs :
          LET a == request[i].source_account_id
          IN  /\ (/\ Steps(i)
                  /\ pc[i] = "verify_source_account"
                  /\ a \in DOMAIN accounts)
                 => (response'[i].kind = "InsufficientFunds"
                        <=> accounts[a].balance < request[i].amount)
                    \/ response'[i].kind = "StoreError"
              /\ (/\ Steps(i)
                  /\ pc[i] = "execute_transaction"
                  /\ a \in DOMAIN accounts
                  /\ request[i].amount = accounts[a].balance)
                 => /\ response'[i].status = "success"
                    /\ accounts'[a].balance = 0]_vars

\* C25: initiate_payment called with a payment_id of the caller's that is
\* already stored fails, and leaves the stored payment row and the balance
\* of the source account as they were: no debit is kept.
C25_StoredPaymentIdRejected ==
    [][\A i \in Procs :
          (/\ Steps(i)
           /\ pc[i] = "execute_transaction"
           /\ request[i].payment_id \in SuppliedPaymentIds \cap DOMAIN payments)
          => /\ response'[i].status = "error"
             /\ payments' = payments
             /\ accounts' = accounts]_vars

\* C25 witness: a payment row is stored under the caller's id, one
\* invocation has failed in its commit step, and another, past its checks,
\* is about to commit a payment under the stored id.
C25_Witness ==
    \E i, j \in Procs :
        /\ CommitRaised(i)
        /\ pc[j] = "execute_transaction"
        /\ request[j].payment_id \in SuppliedPaymentIds \cap DOMAIN payments
        /\ request[j].amount <= accounts[request[j].source_account_id].balance

\* The step handles a read, create, update or delete event.
HandlesTableAction ==
    /\ handled' = handled + 1
    /\ Lower(reply'.event.action) \in {"read", "create", "update", "delete"}
\* A table name that is missing, not a string, empty, or has a character
\* other than a letter, a digit or the underscore.
NotATableName(table_name) ==
    \/ table_name.type # "str"
    \/ table_name.chars = << >>
    \/ \E i \in DOMAIN table_name.chars : table_name.chars[i] \notin {"t", "1", "_"}

\* C26: for every read, create, update or delete action whose table_name is
\* missing, not a string, empty, or contains a character other than a
\* letter, digit or underscore, the generic handler returns status 400 and
\* makes no DAO read or write with that table name.
C26_InvalidTableNameRefused ==
    [][(HandlesTableAction /\ NotATableName(reply'.event.table_name))
          => /\ reply'.statusCode = 400
             /\ reply'.dao_calls = << >>
             /\ rows' = rows]_vars

\* C27: an update or delete action of the generic handler that carries no
\* conditions, the key absent or the dictionary empty, modifies and deletes
\* no rows: the request ends in an error response and the table is as it
\* was.
C27_NoConditionsNoChange ==
    [][(/\ handled' = handled + 1
        /\ Lower(reply'.event.action) \in {"update", "delete"}
        /\ Get(reply'.event.conditions) = << >>)
          => /\ reply'.statusCode \in {400, 500}
             /\ rows' = rows]_vars

\* C28: when a call of execute_query, execute_update or initialize_tables
\* returns or raises, on every path (success, statement error, connect
\* error), the singleton's connection is not left open: what the singleton
\* holds is closed, and no connection it made is open.
C28_ConnectionClosedAfterCall ==
    [][\A t \in Callers :
          (db_pc[t] # "idle" /\ db_pc'[t] = "idle")
          => /\ NotConnected(db_connection', db_open')
             /\ db_open' = {}]_vars

\* C28 witness: calls have ended on each path: one returned, one raised the
\* statement's error with a connection made, and nothing is open.
C28_Witness ==
    /\ NoCallRunning
    /\ db_connection # 0
    /\ db_open = {}
    /\ \E t, u \in Callers : db_raised[t] = "Error" /\ db_raised[u] = NULL /\ db_method[u] # NULL

\* C29: when execute_update fails, what it raises to the caller is the
\* store's original error (or the missing-certificate error of connect),
\* both when the statement fails on an open connection and when no
\* connection could be made and none exists yet.
C29_UpdateRaisesOriginalError ==
    \A t \in Callers :
        db_method[t] = "execute_update"
        => db_raised[t] \in {NULL, "Error", "FileNotFoundError"}
RECURSIVE SumOfCounts(_)
\* The sum of the counts of a breakdown.
SumOfCounts(breakdown) ==
    IF DOMAIN breakdown = {} THEN 0
    ELSE LET key == CHOOSE k \in DOMAIN breakdown : TRUE
         IN  breakdown[key] + SumOfCounts(Del(breakdown, key))
RECURSIVE SumOfAmounts(_)
\* The sum of the amounts of a breakdown, added as floats; with the two
\* currencies of MainCurrencies the order of the additions makes no
\* difference.
SumOfAmounts(breakdown) ==
    IF DOMAIN breakdown = {} THEN Double(0, 0)
    ELSE LET key == CHOOSE k \in DOMAIN breakdown : TRUE
         IN  FloatAdd(breakdown[key], SumOfAmounts(Del(breakdown, key)))
\* The stored payments created within the period a statistics call named.
PaymentsInPeriod ==
    {payments_db[id] : id \in {k \in DOMAIN payments_db :
        InPeriod(payments_db[k], last.filters.start_date, last.filters.end_date)}}
\* The counts of the statistics last returned agree with each other and with
\* the payments in the period.
CountsAgree ==
    LET statistics == last.statistics
    IN  /\ statistics.total_payments = Cardinality(PaymentsInPeriod)
        /\ statistics.total_payments = SumOfCounts(statistics.status_breakdown)
        /\ statistics.total_payments = SumOfCounts(statistics.type_breakdown)
        /\ \A status \in DOMAIN statistics.status_breakdown :
              statistics.status_breakdown[status] =
                  Cardinality({p \in PaymentsInPeriod : p.status = status})
        /\ \A type \in DOMAIN statistics.type_breakdown :
              statistics.type_breakdown[type] =
                  Cardinality({p \in PaymentsInPeriod : p.type = type})

\* C30: the statistics get_payment_statistics returns are consistent with each
\* other: total_payments is the number of stored payments in the period, the
\* sum of the counts of status_breakdown and the sum of the counts of
\* type_breakdown, and total_amount is the sum of the amounts of
\* currency_breakdown.
C30_StatisticsConsistent ==
    last.tool = "get_payment_statistics"
        => /\ CountsAgree
           /\ last.statistics.total_amount =
                  SumOfAmounts(last.statistics.currency_breakdown)

====
